---------------------------- MODULE Spec2Model ----------------------------
(***************************************************************************)
(* js-link: the WebSocket bridge session (src/src/websocket.rs), the proxy *)
(* detector (src/src/proxy.rs) and the request executor                    *)
(* (src/src/executor.rs) as state machines.                                *)
(*                                                                         *)
(* Text is modelled as a sequence of one-character strings, so that        *)
(* prefix, suffix and substring tests and replacement are computed the way *)
(* the Rust code computes them.                                            *)
(***************************************************************************)
EXTENDS Integers, Sequences, FiniteSets, TLC

(***************************************************************************)
(* Bounds of the model.                                                    *)
(***************************************************************************)
\* control messages the browser sends in one session
MaxCmds == 2
\* capacity of the outgoing channel (mpsc::channel(100) in the code), scaled down
OutCap == 2

(***************************************************************************)
(* Text helpers (Rust str methods).                                        *)
(***************************************************************************)
None == <<"None">>

Some(x) == <<"Some", x>>

IsSome(o) == o # None

Unwrap(o) == o[2]

\* str::starts_with
StartsWith(s, p) ==
    /\ Len(p) <= Len(s)
    /\ SubSeq(s, 1, Len(p)) = p

\* str::ends_with
EndsWith(s, p) ==
    /\ Len(p) <= Len(s)
    /\ SubSeq(s, Len(s) - Len(p) + 1, Len(s)) = p

\* whether p occurs in s at position i
OccursAt(s, p, i) ==
    /\ i >= 1
    /\ i + Len(p) - 1 <= Len(s)
    /\ SubSeq(s, i, i + Len(p) - 1) = p

\* str::contains
Contains(s, p) == \E i \in 1..(Len(s) + 1) : OccursAt(s, p, i)

\* str::find: the first position of p in s, 0 when there is none
Find(s, p) ==
    IF Contains(s, p)
    THEN CHOOSE i \in 1..(Len(s) + 1) :
            /\ OccursAt(s, p, i)
            /\ \A j \in 1..(i - 1) : ~OccursAt(s, p, j)
    ELSE 0

\* str::rfind of a single character: the last position, 0 when there is none
RFind(s, ch) ==
    IF \E i \in 1..Len(s) : s[i] = ch
    THEN CHOOSE i \in 1..Len(s) :
            /\ s[i] = ch
            /\ \A j \in (i + 1)..Len(s) : s[j] # ch
    ELSE 0

\* s without its first n characters
Drop(s, n) == SubSeq(s, n + 1, Len(s))

\* the first n characters of s
Take(s, n) == SubSeq(s, 1, n)

\* str::trim for the space character
RECURSIVE TrimStart(_)
TrimStart(s) ==
    IF s # <<>> /\ Head(s) = " " THEN TrimStart(Tail(s)) ELSE s

RECURSIVE TrimEnd(_)
TrimEnd(s) ==
    IF s # <<>> /\ s[Len(s)] = " " THEN TrimEnd(Take(s, Len(s) - 1)) ELSE s

Trim(s) == TrimEnd(TrimStart(s))

\* str::split on a single character: the sequence of pieces
RECURSIVE Split(_, _)
Split(s, ch) ==
    LET i == Find(s, <<ch>>)
    IN  IF i = 0 THEN <<s>>
        ELSE <<Take(s, i - 1)>> \o Split(Drop(s, i), ch)

\* str::replace: every non-overlapping occurrence of p, left to right
RECURSIVE Replace(_, _, _)
Replace(s, p, v) ==
    IF p = <<>> THEN s
    ELSE LET i == Find(s, p)
         IN  IF i = 0 THEN s
             ELSE Take(s, i - 1) \o v \o Replace(Drop(s, i + Len(p) - 1), p, v)

(***************************************************************************)
(* Proxy detector: src/src/proxy.rs.                                       *)
(***************************************************************************)
\* A piece of text written as a TLA+ tuple of characters.
S_ws == <<"w", "s", ":", "/", "/">>

S_wss == <<"w", "s", "s", ":", "/", "/">>

S_http == <<"h", "t", "t", "p", ":", "/", "/">>

S_https == <<"h", "t", "t", "p", "s", ":", "/", "/">>

S_socks == <<"s", "o", "c", "k", "s", ":", "/", "/">>

S_socks4 == <<"s", "o", "c", "k", "s", "4", ":", "/", "/">>

S_socks4a == <<"s", "o", "c", "k", "s", "4", "a", ":", "/", "/">>

S_socks5 == <<"s", "o", "c", "k", "s", "5", ":", "/", "/">>

S_socks5h == <<"s", "o", "c", "k", "s", "5", "h", ":", "/", "/">>

S_sep == <<":", "/", "/">>

Digits == <<"0", "1", "2", "3", "4", "5", "6", "7", "8", "9">>

DigitVal(ch) == (CHOOSE i \in 1..10 : Digits[i] = ch) - 1

IsDigit(ch) == \E i \in 1..10 : Digits[i] = ch

RECURSIVE DecVal(_)
DecVal(s) ==
    IF s = <<>> THEN 0
    ELSE DecVal(Take(s, Len(s) - 1)) * 10 + DigitVal(s[Len(s)])

\* str::parse::<u16>: Some(n), or None when the text is no u16
ParseU16(s) ==
    LET d == IF s # <<>> /\ Head(s) = "+" THEN Tail(s) ELSE s
    IN  IF d # <<>> /\ (\A i \in 1..Len(d) : IsDigit(d[i])) /\ DecVal(d) <= 65535
        THEN Some(DecVal(d))
        ELSE None

\* ProxyConfig::from_url: Some(ProxyConfig) or None
from_url(raw) ==
    LET url == Trim(raw)
        typed ==
            IF StartsWith(url, S_socks4) \/ StartsWith(url, S_socks4a)
            THEN <<"Socks4", Drop(url, Find(url, S_sep) + 2)>>
            ELSE IF StartsWith(url, S_socks5) \/ StartsWith(url, S_socks5h) \/ StartsWith(url, S_socks)
            THEN <<"Socks5", Drop(url, Find(url, S_sep) + 2)>>
            ELSE IF StartsWith(url, S_https)
            THEN <<"Https", Drop(url, Find(url, S_sep) + 2)>>
            ELSE IF StartsWith(url, S_http)
            THEN <<"Http", Drop(url, Find(url, S_sep) + 2)>>
            ELSE <<"Http", url>>
        proxy_type == typed[1]
        rest == typed[2]
        at == Find(rest, <<"@">>)
        auth == IF at # 0 THEN Some(Take(rest, at - 1)) ELSE None
        after_auth == IF at # 0 THEN Drop(rest, at) ELSE rest
        colon == IF IsSome(auth) THEN Find(Unwrap(auth), <<":">>) ELSE 0
        username ==
            IF ~IsSome(auth) THEN None
            ELSE IF colon # 0 THEN Some(Take(Unwrap(auth), colon - 1))
            ELSE auth
        password ==
            IF IsSome(auth) /\ colon # 0 THEN Some(Drop(Unwrap(auth), colon)) ELSE None
        host_port == Split(after_auth, "/")[1]
        last == RFind(host_port, ":")
        port ==
            IF last # 0 THEN ParseU16(Drop(host_port, last))
            ELSE Some(CASE proxy_type = "Http" -> 80
                        [] proxy_type = "Https" -> 443
                        [] OTHER -> 1080)
        host == IF last # 0 THEN Take(host_port, last - 1) ELSE host_port
    IN  IF url = <<>> THEN None
        ELSE IF ~IsSome(port) THEN None
        ELSE Some([proxy_type |-> proxy_type, host |-> host, port |-> Unwrap(port),
                   username |-> username, password |-> password])

\* The names of the process environment variables the detector reads.
EnvNames == {"ALL_PROXY", "all_proxy", "HTTPS_PROXY", "https_proxy", "HTTP_PROXY",
             "http_proxy", "SOCKS_PROXY", "socks_proxy", "NO_PROXY", "no_proxy"}

\* env::var(upper).or_else(|_| env::var(lower)): the first that is set
EnvVar(env, upper, lower) == IF IsSome(env[upper]) THEN env[upper] ELSE env[lower]

\* extract_host: the host of a WebSocket URL, without scheme, path and port
extract_host(target_url) ==
    LET url == IF StartsWith(target_url, S_wss) THEN Drop(target_url, Len(S_wss))
               ELSE IF StartsWith(target_url, S_ws) THEN Drop(target_url, Len(S_ws))
               ELSE target_url
        host_port == Split(url, "/")[1]
        idx == RFind(host_port, ":")
        end_bracket == RFind(host_port, "]")
    IN  IF idx = 0 THEN host_port
        ELSE IF Contains(host_port, <<"[">>)
             THEN IF end_bracket # 0 /\ idx > end_bracket
                  THEN Take(host_port, idx - 1)
                  ELSE host_port
             ELSE Take(host_port, idx - 1)

\* one NO_PROXY entry against the host (the body of the loop of should_bypass_proxy)
EntryMatches(host, raw_entry) ==
    LET entry == Trim(raw_entry)
    IN  /\ entry # <<>>
        /\ \/ entry = <<"*">>
           \/ /\ Head(entry) = "."
              /\ (EndsWith(host, entry) \/ host = Tail(entry))
           \/ /\ Head(entry) # "."
              /\ (host = entry \/ EndsWith(host, <<".">> \o entry))

\* should_bypass_proxy
should_bypass_proxy(target_url, env) ==
    LET v == EnvVar(env, "NO_PROXY", "no_proxy")
        no_proxy == IF IsSome(v) THEN Unwrap(v) ELSE <<>>
        host == extract_host(target_url)
        entries == Split(no_proxy, ",")
    IN  /\ no_proxy # <<>>
        /\ host # <<>>
        /\ \E i \in 1..Len(entries) : EntryMatches(host, entries[i])

\* env::var(..).or_else(..).ok().and_then(from_url)
ProxyFromVar(env, upper, lower) ==
    LET v == EnvVar(env, upper, lower)
    IN  IF IsSome(v) THEN from_url(Unwrap(v)) ELSE None

\* A detector that consults HTTPS_PROXY for ws:// targets as well.
detect_proxy_HttpsForAll(target_url, env) ==
    LET all == ProxyFromVar(env, "ALL_PROXY", "all_proxy")
        https == ProxyFromVar(env, "HTTPS_PROXY", "https_proxy")
        http == ProxyFromVar(env, "HTTP_PROXY", "http_proxy")
        socks == ProxyFromVar(env, "SOCKS_PROXY", "socks_proxy")
    IN  IF should_bypass_proxy(target_url, env) THEN None
        ELSE IF IsSome(all) THEN all
        ELSE IF IsSome(https) THEN https
        ELSE IF IsSome(http) THEN http
        ELSE IF IsSome(socks) THEN socks
        ELSE None

\* detect_proxy: Some(ProxyConfig), or None for a direct connection
detect_proxy(target_url, env) ==
    LET is_wss == StartsWith(target_url, S_wss)
        all == ProxyFromVar(env, "ALL_PROXY", "all_proxy")
        https == ProxyFromVar(env, "HTTPS_PROXY", "https_proxy")
        http == ProxyFromVar(env, "HTTP_PROXY", "http_proxy")
        socks == ProxyFromVar(env, "SOCKS_PROXY", "socks_proxy")
    IN  IF should_bypass_proxy(target_url, env) THEN None
        ELSE IF IsSome(all) THEN all
        ELSE IF is_wss /\ IsSome(https) THEN https
        ELSE IF IsSome(http) THEN http
        ELSE IF IsSome(socks) THEN socks
        ELSE None

\* connect_with_proxy: the egress path the Proxy Dialer takes to a target
connect_with_proxy(target_url, env) ==
    LET proxy == detect_proxy(target_url, env)
    IN  IF IsSome(proxy)
        THEN CASE Unwrap(proxy).proxy_type \in {"Http", "Https"} -> "HttpTunnel"
               [] Unwrap(proxy).proxy_type = "Socks4" -> "Socks4"
               [] OTHER -> "Socks5"
        ELSE "Direct"

(***************************************************************************)
(* WebSocket bridge: src/src/websocket.rs.                                 *)
(***************************************************************************)
\* The target URLs a browser asks for, by name, and their text.
Urls == {"A", "B", "X"}

UrlText(u) ==
    CASE u = "A" -> S_ws \o <<"a">>
      [] u = "B" -> S_wss \o <<"b", ".", "i", "o">>
      [] OTHER -> <<"w", "s", " ", "x">>

\* The text frames a browser sends.
Msgs == {"hi", "yo"}

\* The process environment the server runs in: a proxy for every host but a.
NoEnv == [n \in EnvNames |-> None]

ProxyEnvs ==
    { [NoEnv EXCEPT !["HTTP_PROXY"] = Some(S_http \o <<"p", ":", "8", "0">>),
                    !["NO_PROXY"] = Some(<<"a">>)] }

\* WsClientMessage, and a text frame that does not parse as one
Commands ==
    [type : {"connect"}, arg : Urls]
        \cup [type : {"send"}, arg : Msgs]
        \cup [type : {"disconnect", "invalid"}, arg : {""}]

NoCmd == [type |-> "none", arg |-> ""]

\* WsServerMessage; conn is the remote session the event is about (0: none)
Ev(type, arg, direction, c) ==
    [type |-> type, arg |-> arg, direction |-> direction, conn |-> c]

NoEv == Ev("none", "", "", 0)

E_NotConnected == "Not connected to a WebSocket server"

E_SendFailed == "Failed to send message"

E_InvalidMessage == "Invalid message format"

E_InvalidUrl == "Invalid WebSocket URL"

E_ConnectFailed == "Connection failed"

E_ConnectionError == "Connection error"

R_Remote == "Remote closed connection"

R_User == "User disconnected"

\* One call of detect_proxy (proxy.rs): the target URL and the process
\* environment it runs in, both kept as the parts they are written from, and the
\* value it returned.
VARIABLES
    target,           \* the parts of target_url
    environ,          \* the proxy variables of the process environment
    detected          \* <<"off">>, <<"pending">> or <<"returned", Option<ProxyConfig>>>

detect_vars == <<target, environ, detected>>

NoTarget == [scheme |-> <<>>, userinfo |-> <<>>, host |-> <<>>, port |-> <<>>, path |-> <<>>]

NoEnviron ==
    [no_proxy |-> <<>>, lower |-> FALSE,
     all |-> "unset", https |-> "unset", http |-> "unset", socks |-> "unset"]

\* detect_proxy is not called.
DetectOff ==
    /\ target = NoTarget
    /\ environ = NoEnviron
    /\ detected = <<"off">>

\* One call of handle_import (import_api.rs): the multipart fields not yet read,
\* the preview flag, what the handler has collected, the folders and requests
\* tables, the outcome of the last parse_import_file, and the response.
VARIABLES
    multipart,            \* the uploaded files still to be read
    is_preview,           \* params.preview.unwrap_or(false)
    preview_collections,  \* the CollectionSummary values pushed so far
    status_lines,         \* the lines pushed to message so far
    folders_table,        \* the names of the rows of folders, by id
    requests_table,       \* the rows of requests, by id
    last_parse,           \* the parser chosen for the last file and what it returned
    response              \* the JSON body returned, None until then

import_vars ==
    <<multipart, is_preview, preview_collections, status_lines, folders_table,
      requests_table, last_parse, response>>

NoParse ==
    [file |-> [file_name |-> <<>>, content |-> <<>>,
               doc |-> [format |-> "other", name |-> <<>>, groups |-> <<>>, root |-> <<>>]],
     parser |-> "none", result |-> <<"Err", "none">>]

\* handle_import is not called.
ImportOff ==
    /\ multipart = <<>>
    /\ is_preview = FALSE
    /\ preview_collections = <<>>
    /\ status_lines = <<>>
    /\ folders_table = <<>>
    /\ requests_table = <<>>
    /\ last_parse = NoParse
    /\ response = <<"off">>

\* One of the tables folders, requests and environments, and the last call of
\* its handlers (folders.rs, requests.rs, environments.rs).
VARIABLES
    entity,             \* the table the handlers work on
    table,            \* its rows by id, None where no row has the id
    last_call         \* the last call: operation, arguments, status and listed rows

crud_vars == <<entity, table, last_call>>

\* No table is looked at.
CrudOff ==
    /\ entity = ""
    /\ table = <<>>
    /\ last_call = None

\* One call of substitute_variables (executor.rs): its arguments and its return
\* value.
VARIABLES
    tmpl,             \* the argument `template`
    bindings,         \* the argument `variables`, in the map's iteration order
    returned          \* the value returned, None before the return

call_vars == <<tmpl, bindings, returned>>

\* No call is in progress.
CallOff ==
    /\ tmpl = <<>>
    /\ bindings = <<>>
    /\ returned = None

\* The state of one execution of execute_request_handler (executor.rs) and the
\* rows it reads.
VARIABLES
    requests_row,     \* the row of table requests with id StoredId
    network_settings, \* the row of table network_settings with id 1, or None
    payload,          \* the ExecuteRequestPayload of the call
    epc,              \* where execute_request_handler stands
    request,          \* the local `request`
    variables,        \* the local `variables`, in the map's iteration order
    wire,             \* the HTTP request last handed to send(), or None
    outcome,          \* the status returned to the caller, 0 before the return
    db                \* "up", or "down" while the queries of the pool fail

exec_vars == <<requests_row, network_settings, payload, epc, request, variables, wire,
               outcome, db>>

\* No execution is in progress.
ExecOff ==
    /\ requests_row = None
    /\ network_settings = None
    /\ payload = None
    /\ epc = "off"
    /\ request = None
    /\ variables = <<>>
    /\ wire = None
    /\ outcome = 0
    /\ db = "up"

VARIABLES
    penv,            \* the process environment (proxy variables)
    inbound,         \* the inbound browser socket: "open" or "closed"
    ncmds,           \* control messages received so far
    pc,              \* where handle_socket / handle_client_message stands
    cur,             \* the control message being handled
    lock,            \* whether the handler holds the connection_state mutex
    remote_write_tx, \* WsConnectionState.remote_write_tx: 0 (None) or a remote session
    connected_url,   \* WsConnectionState.connected_url
    conn,            \* the remote sessions dialed so far, in order
    fwd,             \* send_to_client_task: "run", "broken" or "aborted"
    out_chan,        \* the outgoing channel (to_client_tx -> to_client_rx)
    browser          \* the event the browser received last

bridge_vars ==
    <<penv, inbound, ncmds, pc, cur, lock, remote_write_tx, connected_url, conn,
      fwd, out_chan, browser>>

Conns == 1..Len(conn)

\* String::into_client_request: the text parses as a URI that names a host
into_client_request_ok(url) ==
    LET i == Find(url, S_sep)
    IN  /\ url # <<>>
        /\ ~Contains(url, <<" ">>)
        /\ i # 0
        /\ Split(Drop(url, i + 2), "/")[1] # <<>>

\* connect_async_with_config(request, None, false): tokio-tungstenite opens the
\* TCP connection to the request's host itself; no proxy is consulted.
connect_async_with_config(url, env) == "Direct"

\* to_client_tx.send(e).await: waits for room in the channel; the event is
\* accepted while the receiver lives, else dropped (let _ =)
Emit(e) ==
    /\ fwd = "run" => Len(out_chan) < OutCap
    /\ out_chan' = IF fwd = "run" THEN Append(out_chan, e) ELSE out_chan

\* state.remote_write_tx = None; state.connected_url = None
ClearState ==
    /\ remote_write_tx' = 0
    /\ connected_url' = None

BridgeInit ==
    /\ penv \in ProxyEnvs
    /\ inbound = "open"
    /\ ncmds = 0
    /\ pc = "idle"
    /\ cur = NoCmd
    /\ lock = FALSE
    /\ remote_write_tx = 0
    /\ connected_url = None
    /\ conn = <<>>
    /\ fwd = "run"
    /\ out_chan = <<>>
    /\ browser = NoEv

\* A remote session right after connect_async_with_config returned Ok
NewConn(u, egress) ==
    [url |-> u,
     egress |-> egress,          \* the egress path the dial took
     superseded |-> FALSE,       \* a later connect started its dial while this was current
     dropped |-> FALSE,          \* a disconnect was processed while this was current
     chan |-> <<>>,              \* the remote send channel (remote_tx -> remote_rx)
     rbuf |-> <<>>,              \* text frames written to the remote, not yet echoed
     inflight |-> <<>>,          \* frames from the remote not yet read by the read task
     nsent |-> 0,                \* message{direction:sent} events emitted for this remote
     nrecv |-> 0,                \* message{direction:received} events emitted from it
     rstate |-> "open",          \* the remote end: "open", "closed" or "broken"
     wtask |-> "unspawned",      \* write_task: "unspawned", "run", "done" or "aborted"
     rtask |-> "unspawned"]      \* the read task: "unspawned", "run", "closing", "erroring", "done"

\* mpsc::Receiver::recv on a non-empty channel: the message taken, and the rest
\* A receive that takes the newest element instead of the oldest.
ChanRecv_Newest(q) == <<q[Len(q)], SubSeq(q, 1, Len(q) - 1)>>

ChanRecv(q) == <<Head(q), Tail(q)>>

\* remote_rx lives in write_task (and in the handler until the task is spawned)
RxAlive(c) == conn[c].wtask \in {"unspawned", "run"}

\* handle_socket: a text frame that parses as Connect arrives. The handler clears
\* the state under the mutex and builds the upgrade request. (A session dials
\* each target at most once: that bounds the remote sessions.)
RecvConnect(u) ==
    /\ pc = "idle" /\ inbound = "open" /\ ncmds < MaxCmds
    /\ \A c \in Conns : conn[c].url # u
    /\ ~lock
    /\ ncmds' = ncmds + 1
    /\ cur' = [type |-> "connect", arg |-> u]
    /\ ClearState
    /\ IF into_client_request_ok(UrlText(u))
       THEN /\ pc' = "c_dial"
            /\ conn' = [c \in Conns |->
                          IF remote_write_tx = c
                          THEN [conn[c] EXCEPT !.superseded = TRUE]
                          ELSE conn[c]]
       ELSE /\ pc' = "c_badurl"
            /\ conn' = conn
    /\ UNCHANGED <<detect_vars, import_vars, crud_vars, call_vars, exec_vars, penv, inbound, lock, fwd, out_chan, browser>>

\* Connect, into_client_request failed: error event, return
ConnectBadUrl ==
    /\ pc = "c_badurl"
    /\ Emit(Ev("error", E_InvalidUrl, "", 0))
    /\ pc' = "idle"
    /\ cur' = NoCmd
    /\ UNCHANGED <<detect_vars, import_vars, crud_vars, call_vars, exec_vars, penv, inbound, ncmds, lock, remote_write_tx, connected_url, conn, fwd,
                   browser>>

\* Connect, connect_async_with_config returned Ok
DialOk ==
    /\ pc = "c_dial"
    /\ conn' = Append(conn, NewConn(cur.arg, connect_async_with_config(UrlText(cur.arg), penv)))
    /\ pc' = "c_store"
    /\ UNCHANGED <<detect_vars, import_vars, crud_vars, call_vars, exec_vars, penv, inbound, ncmds, cur, lock, remote_write_tx, connected_url,
                   fwd, out_chan, browser>>

\* Connect, connect_async_with_config returned Err
DialFailed ==
    /\ pc = "c_dial"
    /\ pc' = "c_fail"
    /\ UNCHANGED <<detect_vars, import_vars, crud_vars, call_vars, exec_vars, penv, inbound, ncmds, cur, lock, remote_write_tx, connected_url,
                   conn, fwd, out_chan, browser>>

\* A failed dial that is answered with connected instead of the error.
ConnectFailed_NotifiesConnected ==
    /\ pc = "c_fail"
    /\ Emit(Ev("connected", cur.arg, "", 0))
    /\ pc' = "idle"
    /\ cur' = NoCmd
    /\ UNCHANGED <<detect_vars, import_vars, crud_vars, call_vars, exec_vars, penv, inbound, ncmds, lock, remote_write_tx, connected_url, conn, fwd,
                   browser>>

\* Connect, dial failed: error event
ConnectFailed ==
    /\ pc = "c_fail"
    /\ Emit(Ev("error", E_ConnectFailed, "", 0))
    /\ pc' = "idle"
    /\ cur' = NoCmd
    /\ UNCHANGED <<detect_vars, import_vars, crud_vars, call_vars, exec_vars, penv, inbound, ncmds, lock, remote_write_tx, connected_url, conn, fwd,
                   browser>>

\* A store that sets the URL and leaves the channel out of the state.
ConnectStore_UrlOnly ==
    /\ pc = "c_store"
    /\ ~lock
    /\ remote_write_tx' = remote_write_tx
    /\ connected_url' = Some(cur.arg)
    /\ pc' = "c_notify"
    /\ UNCHANGED <<detect_vars, import_vars, crud_vars, call_vars, exec_vars, penv, inbound, ncmds, cur, lock, conn, fwd, out_chan, browser>>

\* Connect, dial ok: store the channel and the URL in the state
ConnectStore ==
    /\ pc = "c_store"
    /\ ~lock
    /\ remote_write_tx' = Len(conn)
    /\ connected_url' = Some(cur.arg)
    /\ pc' = "c_notify"
    /\ UNCHANGED <<detect_vars, import_vars, crud_vars, call_vars, exec_vars, penv, inbound, ncmds, cur, lock, conn, fwd, out_chan, browser>>

\* Connect, dial ok: notify the client
ConnectNotify ==
    /\ pc = "c_notify"
    /\ Emit(Ev("connected", cur.arg, "", Len(conn)))
    /\ pc' = "c_spawn"
    /\ UNCHANGED <<detect_vars, import_vars, crud_vars, call_vars, exec_vars, penv, inbound, ncmds, cur, lock, remote_write_tx, connected_url,
                   conn, fwd, browser>>

\* Connect, dial ok: spawn write_task and the read task, return
ConnectSpawn ==
    /\ pc = "c_spawn"
    /\ conn' = [conn EXCEPT ![Len(conn)].wtask = "run", ![Len(conn)].rtask = "run"]
    /\ pc' = "idle"
    /\ cur' = NoCmd
    /\ UNCHANGED <<detect_vars, import_vars, crud_vars, call_vars, exec_vars, penv, inbound, ncmds, lock, remote_write_tx, connected_url, fwd, out_chan,
                   browser>>

\* Disconnect: take the mutex, clear the state
RecvDisconnect ==
    /\ pc = "idle" /\ inbound = "open" /\ ncmds < MaxCmds
    /\ ~lock
    /\ ncmds' = ncmds + 1
    /\ cur' = [type |-> "disconnect", arg |-> ""]
    /\ lock' = TRUE
    /\ ClearState
    /\ conn' = [c \in Conns |->
                  IF remote_write_tx = c
                  THEN [conn[c] EXCEPT !.dropped = TRUE]
                  ELSE conn[c]]
    /\ pc' = "d_emit"
    /\ UNCHANGED <<detect_vars, import_vars, crud_vars, call_vars, exec_vars, penv, inbound, fwd, out_chan, browser>>

\* Disconnect: emit the event with the mutex held, return
DisconnectEmit ==
    /\ pc = "d_emit"
    /\ Emit(Ev("disconnected", R_User, "", 0))
    /\ lock' = FALSE
    /\ pc' = "idle"
    /\ cur' = NoCmd
    /\ UNCHANGED <<detect_vars, import_vars, crud_vars, call_vars, exec_vars, penv, inbound, ncmds, remote_write_tx, connected_url, conn, fwd, browser>>

\* Send: take the mutex, look at remote_write_tx
RecvSend(m) ==
    /\ pc = "idle" /\ inbound = "open" /\ ncmds < MaxCmds
    /\ ~lock
    /\ ncmds' = ncmds + 1
    /\ cur' = [type |-> "send", arg |-> m]
    /\ lock' = TRUE
    /\ pc' = IF remote_write_tx # 0 THEN "s_fwd" ELSE "s_notconn"
    /\ UNCHANGED <<detect_vars, import_vars, crud_vars, call_vars, exec_vars, penv, inbound, remote_write_tx, connected_url, conn, fwd, out_chan,
                   browser>>

\* Send: tx.send(message) into the remote send channel
SendForward ==
    /\ pc = "s_fwd"
    /\ LET c == remote_write_tx
       IN  IF RxAlive(c)
           THEN /\ conn' = [conn EXCEPT ![c].chan = Append(@, cur.arg)]
                /\ pc' = "s_sent"
           ELSE /\ conn' = conn
                /\ pc' = "s_failed"
    /\ UNCHANGED <<detect_vars, import_vars, crud_vars, call_vars, exec_vars, penv, inbound, ncmds, cur, lock, remote_write_tx, connected_url,
                   fwd, out_chan, browser>>

\* Send: the event that answers the command (sent on a successful hand-over,
\* "Failed to send message" when the channel is closed, "Not connected ..." when
\* remote_write_tx is None); the mutex is released on return. The closed-channel
\* answer needs a write_task that ended on a write error, so three control
\* messages: connect, send, send.
SendNotify ==
    /\ pc \in {"s_sent", "s_failed", "s_notconn"}
    /\ Emit(CASE pc = "s_sent" -> Ev("message", cur.arg, "sent", remote_write_tx)
              [] pc = "s_failed" -> Ev("error", E_SendFailed, "", 0)
              [] OTHER -> Ev("error", E_NotConnected, "", 0))
    /\ conn' = IF pc = "s_sent"
               THEN [conn EXCEPT ![remote_write_tx].nsent = @ + 1]
               ELSE conn
    /\ lock' = FALSE
    /\ pc' = "idle"
    /\ cur' = NoCmd
    /\ UNCHANGED <<detect_vars, import_vars, crud_vars, call_vars, exec_vars, penv, inbound, ncmds, remote_write_tx, connected_url, fwd, browser>>

\* handle_socket: a text frame that is no WsClientMessage
RecvInvalid ==
    /\ pc = "idle" /\ inbound = "open" /\ ncmds < MaxCmds
    /\ ncmds' = ncmds + 1
    /\ cur' = NoCmd
    /\ Emit(Ev("error", E_InvalidMessage, "", 0))
    /\ UNCHANGED <<detect_vars, import_vars, crud_vars, call_vars, exec_vars, penv, inbound, pc, lock, remote_write_tx, connected_url, conn, fwd,
                   browser>>

\* handle_socket: the loop ended; abort the forwarder, clear the state
Cleanup ==
    /\ pc = "idle" /\ inbound = "closed"
    /\ ~lock
    /\ fwd' = IF fwd = "run" THEN "aborted" ELSE fwd
    /\ ClearState
    /\ pc' = "done"
    /\ UNCHANGED <<detect_vars, import_vars, crud_vars, call_vars, exec_vars, penv, inbound, ncmds, cur, lock, conn, out_chan, browser>>

\* send_to_client_task: one turn of its loop
Forward ==
    /\ fwd = "run" /\ out_chan # <<>>
    /\ IF inbound = "open"
       THEN /\ browser' = ChanRecv(out_chan)[1]
            /\ out_chan' = ChanRecv(out_chan)[2]
            /\ fwd' = fwd
       ELSE /\ fwd' = "broken"
            /\ UNCHANGED <<browser, out_chan>>
    /\ UNCHANGED <<detect_vars, import_vars, crud_vars, call_vars, exec_vars, penv, inbound, ncmds, pc, cur, lock, remote_write_tx, connected_url,
                   conn>>

\* write_task of remote session c: take a message, write it as a text frame
WriteFrame(c) ==
    /\ conn[c].wtask = "run" /\ conn[c].chan # <<>>
    /\ \E ok \in BOOLEAN :
        /\ ~ok => conn[c].rstate # "open"
        /\ conn' = IF ok
                   THEN [conn EXCEPT ![c].rbuf = Append(@, ChanRecv(conn[c].chan)[1]),
                                     ![c].chan = ChanRecv(conn[c].chan)[2]]
                   ELSE [conn EXCEPT ![c].chan = <<>>, ![c].wtask = "done"]
    /\ UNCHANGED <<detect_vars, import_vars, crud_vars, call_vars, exec_vars, penv, inbound, ncmds, pc, cur, lock, remote_write_tx, connected_url,
                   fwd, out_chan, browser>>

\* write_task of remote session c: recv() returned None (sender dropped, channel empty)
WriteEnd(c) ==
    /\ conn[c].wtask = "run" /\ conn[c].chan = <<>>
    /\ remote_write_tx # c
    /\ conn' = [conn EXCEPT ![c].wtask = "done"]
    /\ UNCHANGED <<detect_vars, import_vars, crud_vars, call_vars, exec_vars, penv, inbound, ncmds, pc, cur, lock, remote_write_tx, connected_url,
                   fwd, out_chan, browser>>

\* read task of remote session c: a text frame
ReadText(c) ==
    /\ conn[c].rtask = "run" /\ conn[c].inflight # <<>>
    /\ Head(conn[c].inflight).kind = "text"
    /\ Emit(Ev("message", Head(conn[c].inflight).data, "received", c))
    /\ conn' = [conn EXCEPT ![c].inflight = Tail(@), ![c].nrecv = @ + 1]
    /\ UNCHANGED <<detect_vars, import_vars, crud_vars, call_vars, exec_vars, penv, inbound, ncmds, pc, cur, lock, remote_write_tx, connected_url,
                   fwd, browser>>

\* A read task that meets a close frame and ends without telling the browser.
ReadClose_Silent(c) ==
    /\ conn[c].rtask = "run" /\ conn[c].inflight # <<>>
    /\ Head(conn[c].inflight).kind = "close"
    /\ conn' = [conn EXCEPT ![c].inflight = Tail(@), ![c].rtask = "closing"]
    /\ UNCHANGED <<detect_vars, import_vars, crud_vars, call_vars, exec_vars, penv, inbound, ncmds, pc, cur, lock, remote_write_tx, connected_url,
                   fwd, out_chan, browser>>

\* read task of remote session c: a close frame; emit disconnected
ReadClose(c) ==
    /\ conn[c].rtask = "run" /\ conn[c].inflight # <<>>
    /\ Head(conn[c].inflight).kind = "close"
    /\ Emit(Ev("disconnected", R_Remote, "", c))
    /\ conn' = [conn EXCEPT ![c].inflight = Tail(@), ![c].rtask = "closing"]
    /\ UNCHANGED <<detect_vars, import_vars, crud_vars, call_vars, exec_vars, penv, inbound, ncmds, pc, cur, lock, remote_write_tx, connected_url,
                   fwd, browser>>

\* read task of remote session c: a read error; emit error
ReadError(c) ==
    /\ conn[c].rtask = "run" /\ conn[c].inflight # <<>>
    /\ Head(conn[c].inflight).kind = "error"
    /\ Emit(Ev("error", E_ConnectionError, "", c))
    /\ conn' = [conn EXCEPT ![c].inflight = Tail(@), ![c].rtask = "erroring"]
    /\ UNCHANGED <<detect_vars, import_vars, crud_vars, call_vars, exec_vars, penv, inbound, ncmds, pc, cur, lock, remote_write_tx, connected_url,
                   fwd, browser>>

\* A read task that clears the state without taking the mutex.
ReadClear_NoLock(c) ==
    /\ conn[c].rtask \in {"closing", "erroring"}
    /\ ClearState
    /\ conn' = [conn EXCEPT ![c].rtask = "done",
                            ![c].wtask = IF @ = "run" THEN "aborted" ELSE @,
                            ![c].chan = <<>>]
    /\ UNCHANGED <<detect_vars, import_vars, crud_vars, call_vars, exec_vars, penv, inbound, ncmds, pc, cur, lock, fwd, out_chan, browser>>

\* read task of remote session c, Close and Err arms: take the mutex, clear the
\* state, leave the loop, abort write_task
ReadClear(c) ==
    /\ conn[c].rtask \in {"closing", "erroring"}
    /\ ~lock
    /\ ClearState
    /\ conn' = [conn EXCEPT ![c].rtask = "done",
                            ![c].wtask = IF @ = "run" THEN "aborted" ELSE @,
                            ![c].chan = <<>>]
    /\ UNCHANGED <<detect_vars, import_vars, crud_vars, call_vars, exec_vars, penv, inbound, ncmds, pc, cur, lock, fwd, out_chan, browser>>

\* The browser closes the inbound socket.
BrowserClose ==
    /\ inbound = "open"
    /\ inbound' = "closed"
    /\ UNCHANGED <<detect_vars, import_vars, crud_vars, call_vars, exec_vars, penv, ncmds, pc, cur, lock, remote_write_tx, connected_url, conn, fwd,
                   out_chan, browser>>

\* The connection to remote c is open while one of its halves is held.
ConnOpen(c) == conn[c].rtask # "done" \/ conn[c].wtask \in {"unspawned", "run"}

\* The remote of session c echoes the next text frame written to it.
RemoteEcho(c) ==
    /\ ConnOpen(c) /\ conn[c].rstate = "open"
    /\ conn[c].rbuf # <<>>
    /\ conn' = [conn EXCEPT ![c].rbuf = Tail(@),
                            ![c].inflight = Append(@, [kind |-> "text",
                                                       data |-> Head(conn[c].rbuf)])]
    /\ UNCHANGED <<detect_vars, import_vars, crud_vars, call_vars, exec_vars, penv, inbound, ncmds, pc, cur, lock, remote_write_tx, connected_url,
                   fwd, out_chan, browser>>

\* The remote of session c sends a close frame.
RemoteClose(c) ==
    /\ ConnOpen(c) /\ conn[c].rstate = "open"
    /\ conn' = [conn EXCEPT ![c].rstate = "closed",
                            ![c].inflight = Append(@, [kind |-> "close", data |-> ""])]
    /\ UNCHANGED <<detect_vars, import_vars, crud_vars, call_vars, exec_vars, penv, inbound, ncmds, pc, cur, lock, remote_write_tx, connected_url,
                   fwd, out_chan, browser>>

\* The connection to the remote of session c breaks.
RemoteError(c) ==
    /\ ConnOpen(c) /\ conn[c].rstate = "open"
    /\ conn' = [conn EXCEPT ![c].rstate = "broken",
                            ![c].inflight = Append(@, [kind |-> "error", data |-> ""])]
    /\ UNCHANGED <<detect_vars, import_vars, crud_vars, call_vars, exec_vars, penv, inbound, ncmds, pc, cur, lock, remote_write_tx, connected_url,
                   fwd, out_chan, browser>>

\* The steps of the bridge's own tasks.
BridgeStep ==
    \/ \E u \in Urls : RecvConnect(u)
    \/ ConnectBadUrl
    \/ DialOk
    \/ DialFailed
    \/ ConnectFailed
    \/ ConnectStore
    \/ ConnectNotify
    \/ ConnectSpawn
    \/ RecvDisconnect
    \/ DisconnectEmit
    \/ \E m \in Msgs : RecvSend(m)
    \/ SendForward
    \/ SendNotify
    \/ RecvInvalid
    \/ Cleanup
    \/ Forward
    \/ \E c \in Conns : WriteFrame(c)
    \/ \E c \in Conns : WriteEnd(c)
    \/ \E c \in Conns : ReadText(c)
    \/ \E c \in Conns : ReadClose(c)
    \/ \E c \in Conns : ReadError(c)
    \/ \E c \in Conns : ReadClear(c)

\* The steps of the browser and of the remotes.
BridgeEnv ==
    \/ BrowserClose
    \/ \E c \in Conns : RemoteEcho(c)
    \/ \E c \in Conns : RemoteClose(c)
    \/ \E c \in Conns : RemoteError(c)

Next == BridgeStep \/ BridgeEnv

vars == <<bridge_vars, exec_vars, call_vars, crud_vars, detect_vars, import_vars>>

Init == BridgeInit /\ ExecOff /\ CallOff /\ CrudOff /\ DetectOff /\ ImportOff

Spec == Init /\ [][Next]_vars

(***************************************************************************)
(* Request executor: src/src/executor.rs.                                  *)
(***************************************************************************)
Ok(x) == <<"Ok", x>>

Err(kind) == <<"Err", kind>>

IsOk(r) == r[1] = "Ok"

\* ExecutorError and the status into_response gives it
RequestNotFound == "RequestNotFound"

NetworkError == "NetworkError"

SubstitutionError == "SubstitutionError"

DatabaseError == "DatabaseError"

StatusOf(kind) ==
    CASE kind = RequestNotFound -> 404
      [] kind = NetworkError -> 502
      [] kind = SubstitutionError -> 400
      [] kind = DatabaseError -> 500

\* format!("{{{{{}}}}}", key)
Placeholder(key) == <<"{", "{">> \o key \o <<"}", "}">>

\* the loop of substitute_variables over the entries of the map, in the order
\* the map yields them
RECURSIVE SubstLoop(_, _)
SubstLoop(result, vs) ==
    IF vs = <<>> THEN result
    ELSE LET placeholder == Placeholder(Head(vs).key)
         IN  SubstLoop(IF Contains(result, placeholder)
                       THEN Replace(result, placeholder, Head(vs).value)
                       ELSE result,
                       Tail(vs))

substitute_variables(template, vs) ==
    LET result == SubstLoop(template, vs)
    IN  IF Contains(result, <<"{", "{">>) /\ Contains(result, <<"}", "}">>)
        THEN Err(SubstitutionError)
        ELSE Ok(result)

\* .map(|b| substitute_variables(b, &variables)).transpose()
SubstOpt(o, vs) ==
    IF o = None THEN Ok(None)
    ELSE LET r == substitute_variables(Unwrap(o), vs)
         IN  IF IsOk(r) THEN Ok(Some(r[2])) ELSE r

Quote == "\""

\* serde_json::from_str::<HashMap<String, String>> on the texts of this model: an
\* object with no member or with one member whose name and value are strings
\* without quote or escape; any other text of the model is not a map of strings.
ParseJsonMap(t) ==
    LET sep == Find(t, <<Quote, ":", Quote>>)
        key == SubSeq(t, 3, sep - 1)
        val == SubSeq(t, sep + 3, Len(t) - 2)
        plain(x) == \A i \in 1..Len(x) : x[i] \notin {Quote, "\\"}
    IN  IF t = <<"{", "}">> THEN Some(<<>>)
        ELSE IF /\ Len(t) >= 7
                /\ StartsWith(t, <<"{", Quote>>)
                /\ EndsWith(t, <<Quote, "}">>)
                /\ sep >= 3 /\ sep + 4 <= Len(t)
                /\ plain(key) /\ plain(val)
             THEN Some(<<[key |-> key, value |-> val]>>)
             ELSE None

\* serde_json::to_string of a map with at most one entry
ToJsonMap(m) ==
    IF m = <<>> THEN <<"{", "}">>
    ELSE <<"{", Quote>> \o m[1].key \o <<Quote, ":", Quote>> \o m[1].value
            \o <<Quote, "}">>

Unreserved ==
    {"a", "b", "c", "d", "e", "f", "g", "h", "i", "j", "k", "l", "m", "n", "o", "p",
     "q", "r", "s", "t", "u", "v", "w", "x", "y", "z", "0", "1", "2", "3", "4", "5",
     "6", "7", "8", "9", "-", "_", ".", "~"}

\* urlencoding::encode, character by character (the characters of this model)
PctEncode(ch) ==
    CASE ch \in Unreserved -> <<ch>>
      [] ch = "{" -> <<"%", "7", "B">>
      [] ch = "}" -> <<"%", "7", "D">>
      [] ch = "/" -> <<"%", "2", "F">>
      [] ch = ":" -> <<"%", "3", "A">>
      [] ch = " " -> <<"%", "2", "0">>
      [] ch = Quote -> <<"%", "2", "2">>

RECURSIVE UrlEncode(_)
UrlEncode(t) == IF t = <<>> THEN <<>> ELSE PctEncode(Head(t)) \o UrlEncode(Tail(t))

\* form_string.join("&") over the entries of the parsed map
RECURSIVE FormString(_)
FormString(m) ==
    IF m = <<>> THEN <<>>
    ELSE UrlEncode(m[1].key) \o <<"=">> \o UrlEncode(m[1].value)
            \o (IF Len(m) > 1 THEN <<"&">> \o FormString(Tail(m)) ELSE <<>>)

\* reqwest::Method::from_bytes: a non-empty token
MethodOk(m) ==
    /\ m # <<>>
    /\ \A i \in 1..Len(m) :
          m[i] \in Unreserved \cup {"G", "E", "T", "P", "O", "S", "!", "#", "$", "%", "&",
                                    "*", "+", "^", "|"}

\* reqwest::Proxy::http / Proxy::https: the text is a URL, read with http:// in
\* front when it has no scheme, of a proxy scheme and with a host
ProxyOk(t) ==
    LET u == IF Contains(t, S_sep) THEN t ELSE S_http \o t
    IN  \E sch \in {S_http, S_https, S_socks4, S_socks4a, S_socks5, S_socks5h} :
            StartsWith(u, sch) /\ Len(u) > Len(sch)

\* reqwest's IntoUrl at send(), on the texts of this model: an http or https URL
\* with a host, written with plain characters
UrlOk(t) ==
    \E sch \in {S_http, S_https} :
        /\ StartsWith(t, sch) /\ Len(t) > Len(sch)
        /\ \A i \in (Len(sch) + 1)..Len(t) : t[i] \in Unreserved \cup {"/", ":"}

\* The texts the model's requests, payloads and environments are made of.
T_k == Placeholder(<<"k">>)

T_z == Placeholder(<<"z">>)

T_url == S_http \o <<"x">>

T_urlk == S_http \o T_k

T_GET == <<"G", "E", "T">>

T_badmethod == <<"G", " ", "T">>

T_badproxy == <<"f", "t", "p">> \o S_sep \o <<"p">>

T_urly == S_http \o <<"y">>

T_POST == <<"P", "O", "S", "T">>

H_k == <<[key |-> <<"h">>, value |-> T_k]>>

H_g == <<[key |-> <<"g">>, value |-> T_k]>>

\* ids of the rows: the stored request, the environments, an id with no row
StoredId == 1

MissingId == 9

\* Table environments, the column variables as serde_json reads it: a map of
\* strings, or a text that is not one.
EnvTable ==
    [id \in {1, 2, 3} |->
        CASE id = 1 -> [parses |-> TRUE, vars |-> {[key |-> <<"k">>, value |-> <<"v">>]}]
          [] id = 2 -> [parses |-> TRUE,
                        vars |-> {[key |-> <<"k">>, value |-> T_z],
                                  [key |-> <<"z">>, value |-> <<"w">>]}]
          [] id = 3 -> [parses |-> FALSE, vars |-> {}]]

\* The orders a HashMap with the entries m can yield them in.
Orders(m) ==
    {q \in [1..Cardinality(m) -> m] : \A i, j \in DOMAIN q : i # j => q[i] # q[j]}

BodyKinds ==
    {[t |-> "none", c |-> None],
     [t |-> "none", c |-> Some(T_k)],
     [t |-> "json", c |-> Some(T_k)],
     [t |-> "form", c |-> Some(ToJsonMap(<<[key |-> <<"f">>, value |-> T_k]>>))],
     [t |-> "form", c |-> Some(T_k)]}

Auths ==
    {[t |-> "none", tok |-> None, u |-> None, p |-> None],
     [t |-> "none", tok |-> Some(T_k), u |-> None, p |-> None],
     [t |-> "bearer", tok |-> Some(T_k), u |-> None, p |-> None],
     [t |-> "basic", tok |-> None, u |-> Some(T_k), p |-> Some(<<"p">>)]}

RequestRows ==
    {[id |-> StoredId, name |-> "Saved", method |-> T_GET, url |-> u, body |-> b,
      headers |-> h, body_type |-> bk.t, body_content |-> bk.c, auth_type |-> a.t,
      auth_token |-> a.tok, auth_username |-> a.u, auth_password |-> a.p] :
        u \in {T_url, T_urlk}, b \in {None, Some(T_k)},
        h \in {None, Some(ToJsonMap(H_k))}, bk \in BodyKinds, a \in Auths}

NetRows ==
    {None,
     Some([auto_proxy |-> TRUE, http_proxy |-> Some(T_badproxy), https_proxy |-> None]),
     Some([auto_proxy |-> FALSE, http_proxy |-> Some(S_http \o <<"p">>),
           https_proxy |-> None]),
     Some([auto_proxy |-> FALSE, http_proxy |-> None, https_proxy |-> Some(T_badproxy)])}

\* The payloads of the calls; one that names a request without a row carries
\* nothing else.
Payloads ==
    {pl \in
        {[request_id |-> rid, environment_id |-> eid, url |-> u, method |-> m,
          body |-> b, headers |-> h] :
            rid \in {None, Some(StoredId), Some(MissingId)},
            eid \in {None, Some(1), Some(2), Some(3), Some(MissingId)},
            u \in {None, Some(T_urly)}, m \in {None, Some(T_POST), Some(T_badmethod)},
            b \in {None, Some(<<"b">>)}, h \in {None, Some(<<>>), Some(H_g)}} :
        pl.request_id = Some(MissingId) =>
            /\ pl.environment_id = None /\ pl.url = None /\ pl.method = None
            /\ pl.body = None /\ pl.headers = None}

\* The call arrives: rows, payload, nothing done yet; the bridge is at rest.
ExecInit ==
    /\ requests_row \in RequestRows
    /\ network_settings \in NetRows
    /\ payload \in Payloads
    /\ epc = "start"
    /\ request = None
    /\ variables = <<>>
    /\ wire = None
    /\ outcome = 0
    /\ db = "up"
    /\ BridgeInit
    /\ CallOff
    /\ CrudOff
    /\ DetectOff
    /\ ImportOff

\* return Err(kind): the handler ends with the status of the error
Fail(kind) ==
    /\ epc' = "done"
    /\ outcome' = StatusOf(kind)
    /\ UNCHANGED <<request, variables, wire>>

\* the stored request with the overrides of the payload
Overridden(row, pl) ==
    [row EXCEPT
        !.url = IF pl.url # None THEN Unwrap(pl.url) ELSE @,
        !.method = IF pl.method # None THEN Unwrap(pl.method) ELSE @,
        !.body = IF pl.body # None THEN pl.body ELSE @,
        !.headers = IF pl.headers = None THEN @
                    ELSE IF Unwrap(pl.headers) = <<>> THEN None
                    ELSE Some(ToJsonMap(Unwrap(pl.headers)))]

\* a direct execution that takes the payload's body as JSON content
DirectRequest_Json(pl) ==
    [id |-> 0, name |-> "Direct Request", method |-> Unwrap(pl.method),
     url |-> Unwrap(pl.url), body |-> pl.body,
     headers |-> IF pl.headers = None THEN None
                 ELSE Some(ToJsonMap(Unwrap(pl.headers))),
     body_type |-> "json", body_content |-> pl.body, auth_type |-> "none",
     auth_token |-> None, auth_username |-> None, auth_password |-> None]

\* the ephemeral request of a direct execution
DirectRequest(pl) ==
    [id |-> 0, name |-> "Direct Request", method |-> Unwrap(pl.method),
     url |-> Unwrap(pl.url), body |-> pl.body,
     headers |-> IF pl.headers = None THEN None
                 ELSE Some(ToJsonMap(Unwrap(pl.headers))),
     body_type |-> "none", body_content |-> None, auth_type |-> "none",
     auth_token |-> None, auth_username |-> None, auth_password |-> None]

\* 1. fetch the request or build it from the payload
LoadRequest ==
    /\ epc = "start"
    /\ IF payload.request_id # None
       THEN IF db = "down" THEN Fail(DatabaseError)
            ELSE IF Unwrap(payload.request_id) = requests_row.id
            THEN /\ request' = Some(Overridden(requests_row, payload))
                 /\ epc' = "env"
                 /\ UNCHANGED <<variables, wire, outcome>>
            ELSE Fail(RequestNotFound)
       ELSE IF payload.url = None \/ payload.method = None
            THEN Fail(NetworkError)
            ELSE /\ request' = Some(DirectRequest(payload))
                 /\ epc' = "env"
                 /\ UNCHANGED <<variables, wire, outcome>>
    /\ UNCHANGED <<detect_vars, import_vars, crud_vars, call_vars, bridge_vars, requests_row, network_settings, payload, db>>

\* 2. fetch the environment's variables
LoadEnvironment ==
    /\ epc = "env"
    /\ IF payload.environment_id = None
       THEN /\ variables' = <<>>
            /\ epc' = "subst"
            /\ UNCHANGED <<request, wire, outcome>>
       ELSE LET env_id == Unwrap(payload.environment_id)
            IN  IF db = "down" THEN Fail(DatabaseError)
                ELSE IF env_id \notin DOMAIN EnvTable THEN Fail(RequestNotFound)
                ELSE IF ~EnvTable[env_id].parses THEN Fail(SubstitutionError)
                ELSE /\ \E order \in Orders(EnvTable[env_id].vars) : variables' = order
                     /\ epc' = "subst"
                     /\ UNCHANGED <<request, wire, outcome>>
    /\ UNCHANGED <<detect_vars, import_vars, crud_vars, call_vars, bridge_vars, requests_row, network_settings, payload, db>>

\* 3. variable substitution over url, body, headers and the three auth fields
Substitute ==
    /\ epc = "subst"
    /\ LET r == Unwrap(request)
           resolved_url == substitute_variables(r.url, variables)
           resolved_body == SubstOpt(r.body, variables)
           resolved_headers == SubstOpt(r.headers, variables)
           resolved_auth_token == SubstOpt(r.auth_token, variables)
           resolved_auth_username == SubstOpt(r.auth_username, variables)
           resolved_auth_password == SubstOpt(r.auth_password, variables)
       IN  IF /\ IsOk(resolved_url) /\ IsOk(resolved_body) /\ IsOk(resolved_headers)
              /\ IsOk(resolved_auth_token) /\ IsOk(resolved_auth_username)
              /\ IsOk(resolved_auth_password)
           THEN /\ request' = Some([r EXCEPT !.url = resolved_url[2],
                                             !.body = resolved_body[2],
                                             !.headers = resolved_headers[2],
                                             !.auth_token = resolved_auth_token[2],
                                             !.auth_username = resolved_auth_username[2],
                                             !.auth_password = resolved_auth_password[2]])
                /\ epc' = "dispatch"
                /\ UNCHANGED <<variables, wire, outcome>>
           ELSE Fail(SubstitutionError)
    /\ UNCHANGED <<detect_vars, import_vars, crud_vars, call_vars, bridge_vars, requests_row, network_settings, payload, db>>

\* a client builder that validates the explicit proxies also under auto_proxy
build_reqwest_client_Strict(row) ==
    LET ns == IF row = None
              THEN [auto_proxy |-> TRUE, http_proxy |-> None, https_proxy |-> None]
              ELSE Unwrap(row)
    IN  IF ns.http_proxy # None /\ ~ProxyOk(Unwrap(ns.http_proxy))
        THEN Err(NetworkError)
        ELSE IF ns.https_proxy # None /\ ~ProxyOk(Unwrap(ns.https_proxy))
        THEN Err(NetworkError)
        ELSE IF ns.auto_proxy
        THEN Ok([auto_proxy |-> TRUE, http_proxy |-> None, https_proxy |-> None])
        ELSE Ok(ns)

\* the client build_reqwest_client returns when the query for the network
\* settings yields row; None stands for every failure of the query
build_reqwest_client(row) ==
    LET ns == IF row = None
              THEN [auto_proxy |-> TRUE, http_proxy |-> None, https_proxy |-> None]
              ELSE Unwrap(row)
    IN  IF ns.auto_proxy
        THEN Ok([auto_proxy |-> TRUE, http_proxy |-> None, https_proxy |-> None])
        ELSE IF ns.http_proxy # None /\ ~ProxyOk(Unwrap(ns.http_proxy))
             THEN Err(NetworkError)
        ELSE IF ns.https_proxy # None /\ ~ProxyOk(Unwrap(ns.https_proxy))
             THEN Err(NetworkError)
        ELSE Ok(ns)

S_Bearer == <<"B", "e", "a", "r", "e", "r", " ">>

\* the Authorization header of bearer authentication
BearerHeader(r) ==
    IF r.auth_type = "bearer" /\ r.auth_token # None
    THEN Some(S_Bearer \o Unwrap(r.auth_token))
    ELSE None

\* the credentials handed to basic_auth
BasicAuth(r) ==
    IF r.auth_type = "basic" /\ r.auth_username # None /\ r.auth_password # None
    THEN Some([username |-> Unwrap(r.auth_username),
               password |-> Unwrap(r.auth_password)])
    ELSE None

NoBody == [content_type |-> "", body |-> None, multipart |-> None]

\* the body of the outgoing request, by body_type
BodyOf(r) ==
    IF r.body_content # None
    THEN LET body_content == Unwrap(r.body_content)
             parsed == ParseJsonMap(body_content)
         IN  CASE r.body_type = "json" ->
                    Ok([NoBody EXCEPT !.content_type = "application/json",
                                      !.body = Some(body_content)])
               [] r.body_type = "xml" ->
                    Ok([NoBody EXCEPT !.content_type = "application/xml",
                                      !.body = Some(body_content)])
               [] r.body_type = "text" ->
                    Ok([NoBody EXCEPT !.content_type = "text/plain",
                                      !.body = Some(body_content)])
               [] r.body_type = "form" ->
                    IF parsed = None THEN Err(SubstitutionError)
                    ELSE Ok([NoBody EXCEPT
                                !.content_type = "application/x-www-form-urlencoded",
                                !.body = Some(FormString(Unwrap(parsed)))])
               [] r.body_type = "multipart" ->
                    IF parsed = None THEN Err(SubstitutionError)
                    ELSE Ok([NoBody EXCEPT !.content_type = "multipart/form-data",
                                           !.multipart = Some(Unwrap(parsed))])
               [] r.body_type = "binary" ->
                    Ok([NoBody EXCEPT !.content_type = "application/octet-stream",
                                      !.body = Some(body_content)])
               [] OTHER -> Ok(NoBody)
    ELSE IF r.body # None
    THEN Ok([NoBody EXCEPT !.body = r.body])
    ELSE Ok(NoBody)

\* the user headers of the outgoing request
HeadersOf(r) ==
    IF r.headers = None THEN Ok(<<>>)
    ELSE LET headers_map == ParseJsonMap(Unwrap(r.headers))
         IN  IF headers_map = None THEN Err(SubstitutionError)
             ELSE Ok(Unwrap(headers_map))

\* 4. and 5. build the client and the request, and send it
Dispatch ==
    /\ epc = "dispatch"
    /\ LET r == Unwrap(request)
           client == build_reqwest_client(IF db = "down" THEN None
                                          ELSE network_settings)
           body == BodyOf(r)
           headers == HeadersOf(r)
       IN  IF ~IsOk(client) THEN Fail(NetworkError)
           ELSE IF ~MethodOk(r.method) THEN Fail(NetworkError)
           ELSE IF ~IsOk(body) THEN Fail(SubstitutionError)
           ELSE IF ~IsOk(headers) THEN Fail(SubstitutionError)
           ELSE IF ~UrlOk(r.url) THEN Fail(NetworkError)
           ELSE /\ wire' = Some([method |-> r.method, url |-> r.url,
                                 authorization |-> BearerHeader(r),
                                 basic_auth |-> BasicAuth(r),
                                 content_type |-> body[2].content_type,
                                 body |-> body[2].body,
                                 multipart |-> body[2].multipart,
                                 headers |-> headers[2],
                                 client |-> client[2]])
                /\ \E answered \in BOOLEAN :
                        outcome' = IF answered THEN 200 ELSE StatusOf(NetworkError)
                /\ epc' = "done"
                /\ UNCHANGED <<request, variables>>
    /\ UNCHANGED <<detect_vars, import_vars, crud_vars, call_vars, bridge_vars, requests_row, network_settings, payload, db>>

ExecNext ==
    \/ LoadRequest
    \/ LoadEnvironment
    \/ Substitute
    \/ Dispatch

ExecSpec == ExecInit /\ [][ExecNext]_vars

(***************************************************************************)
(* substitute_variables on its own: every template and map of the bounds.  *)
(***************************************************************************)
\* the longest template
MaxTmplLen == 6

Templates == UNION {[1..n -> {"{", "}", "k", "z"}] : n \in 0..MaxTmplLen}

\* The maps over the keys k and z with the values v, {{z}} and {{, each in every
\* order a HashMap can yield its entries in.
Bindings ==
    UNION {Orders({[key |-> <<x>>, value |-> f[x]] : x \in ks}) :
            ks \in SUBSET {"k", "z"}, f \in [{"k", "z"} -> {<<"v">>, T_z, <<"{", "{">>}]}

SubstInit ==
    /\ tmpl \in Templates
    /\ bindings \in Bindings
    /\ returned = None
    /\ BridgeInit
    /\ ExecOff
    /\ CrudOff
    /\ DetectOff
    /\ ImportOff

\* the call returns
SubstCall ==
    /\ returned = None
    /\ returned' = Some(substitute_variables(tmpl, bindings))
    /\ UNCHANGED <<detect_vars, import_vars, crud_vars, bridge_vars, exec_vars, tmpl, bindings>>

SubstSpec == SubstInit /\ [][SubstCall]_vars

(***************************************************************************)
(* The service over time: executions one after the other, updates of the   *)
(* network settings (network.rs) in between, and a pool whose queries may  *)
(* fail.                                                                   *)
(***************************************************************************)
\* The stored requests of these runs: one plain, the others with one field
\* that can make the execution fail.
ServiceRows ==
    {r \in RequestRows :
        /\ r.body = None /\ r.auth_type = "none" /\ r.auth_token = None
        /\ r.url = T_urlk => (r.headers = None /\ r.body_content = None)
        /\ r.headers # None => r.body_content = None}
    \cup {[id |-> StoredId, name |-> "Saved", method |-> T_GET, url |-> T_url,
           body |-> None, headers |-> h, body_type |-> t, body_content |-> c,
           auth_type |-> "none", auth_token |-> None, auth_username |-> None,
           auth_password |-> None] :
            h \in {None, Some(<<"v">>)}, t \in {"multipart"}, c \in {Some(<<"v">>)}}

\* The payloads of these runs: no body and no headers; url and method of a
\* direct execution, or the method over a stored request.
ServicePayloads ==
    {pl \in Payloads :
        /\ pl.body = None /\ pl.headers = None /\ pl.environment_id # Some(2)
        /\ pl.request_id # None => (pl.url = None /\ pl.method # Some(T_POST))
        /\ pl.request_id = None => pl.environment_id \in {None, Some(1)}}

ServiceInit ==
    /\ requests_row \in ServiceRows
    /\ network_settings \in {n \in NetRows : n # None => Unwrap(n).auto_proxy}
    /\ payload \in ServicePayloads
    /\ db \in {"up", "down"}
    /\ epc = "start"
    /\ request = None
    /\ variables = <<>>
    /\ wire = None
    /\ outcome = 0
    /\ BridgeInit
    /\ CallOff
    /\ CrudOff
    /\ DetectOff
    /\ ImportOff

\* PUT /settings/network: the row with id 1 takes the values of the payload;
\* without the row, or with a failing pool, nothing is changed.
update_network_settings ==
    /\ db = "up"
    /\ network_settings # None
    /\ \E new \in NetRows \ {None} : network_settings' = new
    /\ UNCHANGED <<detect_vars, import_vars, crud_vars, call_vars, bridge_vars, requests_row, payload, epc, request,
                   variables, wire, outcome, db>>

\* The pool starts or stops failing.
DbChange ==
    /\ db' = IF db = "up" THEN "down" ELSE "up"
    /\ UNCHANGED <<detect_vars, import_vars, crud_vars, call_vars, bridge_vars, requests_row, network_settings, payload,
                   epc, request, variables, wire, outcome>>

\* The next call of POST /execute arrives after the previous one returned.
NextCall ==
    /\ epc = "done"
    /\ payload' \in ServicePayloads
    /\ epc' = "start"
    /\ request' = None
    /\ variables' = <<>>
    /\ outcome' = 0
    /\ UNCHANGED <<detect_vars, import_vars, crud_vars, call_vars, bridge_vars, requests_row, network_settings, wire, db>>

ServiceNext ==
    \/ ExecNext
    \/ update_network_settings
    \/ DbChange
    \/ NextCall

ServiceSpec == ServiceInit /\ [][ServiceNext]_vars

(***************************************************************************)
(* The handlers of folders.rs, requests.rs and environments.rs over one    *)
(* table.  The three files have the same handlers; they differ in the      *)
(* fields of a row, in the validation of create and update, and in update  *)
(* setting updated_at.                                                     *)
(***************************************************************************)
\* the ids a row can have
MaxRows == 2

\* the values of CURRENT_TIMESTAMP and Utc::now()
Times == {1, 2}

\* str::to_uppercase over the characters of the bounds
to_uppercase(t) ==
    LET up == [c \in {"g", "e", "t", "p", "o", "s"} |->
                CASE c = "g" -> "G" [] c = "e" -> "E" [] c = "t" -> "T"
                  [] c = "p" -> "P" [] c = "o" -> "O" [] c = "s" -> "S"]
    IN  [i \in DOMAIN t |-> IF t[i] \in DOMAIN up THEN up[t[i]] ELSE t[i]]

\* the methods create_request and update_request let through
HttpMethods ==
    {T_GET, T_POST, <<"P", "U", "T">>, <<"D", "E", "L", "E", "T", "E">>,
     <<"P", "A", "T", "C", "H">>, <<"H", "E", "A", "D">>,
     <<"O", "P", "T", "I", "O", "N", "S">>}

\* the bodies of create and update, by table
CrudPayloads(k) ==
    CASE k = "folders" -> {[name |-> n] : n \in {"", "f", "g"}}
      [] k = "environments" ->
            {[name |-> "", variables |-> "{}"], [name |-> "e", variables |-> "{}"],
             [name |-> "e", variables |-> "{\"k\":\"v\"}"]}
      [] k = "requests" ->
            {[name |-> "", method |-> T_GET, request_type |-> "api"],
             [name |-> "r", method |-> <<"P", "o", "s", "t">>, request_type |-> "api"],
             [name |-> "r", method |-> <<"G", "O", "T">>, request_type |-> "api"],
             [name |-> "r", method |-> <<"G", "O", "T">>, request_type |-> "ws"]}

\* a check that holds the method of a WebSocket request to the list as well
Validate_AlsoWs(k, p) ==
    IF p.name = "" THEN 400
    ELSE IF k = "requests" /\ to_uppercase(p.method) \notin HttpMethods
    THEN 400
    ELSE 0

\* whether the row at id is archived, None without a row
ArchivedAt(id) ==
    IF table[id] = None THEN None ELSE Some(Unwrap(table[id]).archived_at # None)

\* the check create and update make before they touch the table: 0, or the
\* status of the error
Validate(k, p) ==
    IF p.name = "" THEN 400
    ELSE IF k = "requests" /\ p.request_type # "ws"
            /\ to_uppercase(p.method) \notin HttpMethods
    THEN 400
    ELSE 0

\* The call op with its answer.  arg is the body of create and update, the
\* flag include_archived of list, and for archive and unarchive whether the
\* row at id was archived when the call came (None without a row).
Call(op, id, arg, st, rows) ==
    [op |-> op, id |-> id, arg |-> arg, status |-> st, rows |-> rows]

\* An empty table after the migrations.
CrudInit ==
    /\ entity \in {"folders", "requests", "environments"}
    /\ table = [id \in 1..MaxRows |-> None]
    /\ last_call = Call("none", 0, <<>>, 0, {})
    /\ BridgeInit
    /\ ExecOff
    /\ CallOff
    /\ DetectOff
    /\ ImportOff

\* POST /<table>
create ==
    /\ entity # ""
    /\ \E p \in CrudPayloads(entity), now \in Times :
        IF Validate(entity, p) # 0
        THEN /\ last_call' = Call("create", 0, p, Validate(entity, p), {})
             /\ UNCHANGED table
        ELSE \E id \in {i \in DOMAIN table : table[i] = None} :
                /\ table' = [table EXCEPT ![id] =
                                Some([data |-> p, updated_at |-> now,
                                      archived_at |-> None])]
                /\ last_call' = Call("create", id, p, 201, {})
    /\ UNCHANGED <<entity, bridge_vars, exec_vars, call_vars, detect_vars, import_vars>>

\* a listing that hides the archived rows whatever include_archived says
list_HidesAlways ==
    /\ entity # ""
    /\ \E include_archived \in BOOLEAN :
        last_call' =
            Call("list", 0, include_archived, 200,
                 {[id |-> i, row |-> Unwrap(table[i])] :
                    i \in {j \in DOMAIN table :
                            /\ table[j] # None
                            /\ Unwrap(table[j]).archived_at = None}})
    /\ UNCHANGED <<entity, table, bridge_vars, exec_vars, call_vars, detect_vars, import_vars>>

\* GET /<table>?include_archived=
list ==
    /\ entity # ""
    /\ \E include_archived \in BOOLEAN :
        last_call' =
            Call("list", 0, include_archived, 200,
                 {[id |-> i, row |-> Unwrap(table[i])] :
                    i \in {j \in DOMAIN table :
                            /\ table[j] # None
                            /\ include_archived \/ Unwrap(table[j]).archived_at = None}})
    /\ UNCHANGED <<entity, table, bridge_vars, exec_vars, call_vars, detect_vars, import_vars>>

\* PUT /<table>/:id
update ==
    /\ entity # ""
    /\ \E id \in DOMAIN table, p \in CrudPayloads(entity), now \in Times :
        IF Validate(entity, p) # 0
        THEN /\ last_call' = Call("update", id, p, Validate(entity, p), {})
             /\ UNCHANGED table
        ELSE IF table[id] = None
        THEN /\ last_call' = Call("update", id, p, 404, {})
             /\ UNCHANGED table
        ELSE /\ table' = [table EXCEPT ![id] =
                            Some([Unwrap(@) EXCEPT
                                    !.data = p,
                                    !.updated_at = IF entity = "folders" THEN @ ELSE now])]
             /\ last_call' = Call("update", id, p, 200, {})
    /\ UNCHANGED <<entity, bridge_vars, exec_vars, call_vars, detect_vars, import_vars>>

\* an archive that also stamps updated_at
archive_Touches ==
    /\ entity # ""
    /\ \E id \in DOMAIN table, now \in Times :
        IF table[id] = None
        THEN /\ last_call' = Call("archive", id, ArchivedAt(id), 404, {})
             /\ UNCHANGED table
        ELSE /\ table' = [table EXCEPT ![id] =
                            Some([Unwrap(@) EXCEPT !.archived_at = Some(now),
                                                   !.updated_at = now])]
             /\ last_call' = Call("archive", id, ArchivedAt(id), 200, {})
    /\ UNCHANGED <<entity, bridge_vars, exec_vars, call_vars, detect_vars, import_vars>>

\* PUT /<table>/:id/archive
archive ==
    /\ entity # ""
    /\ \E id \in DOMAIN table, now \in Times :
        IF table[id] = None
        THEN /\ last_call' = Call("archive", id, ArchivedAt(id), 404, {})
             /\ UNCHANGED table
        ELSE /\ table' = [table EXCEPT ![id] =
                            Some([Unwrap(@) EXCEPT !.archived_at = Some(now)])]
             /\ last_call' = Call("archive", id, ArchivedAt(id), 200, {})
    /\ UNCHANGED <<entity, bridge_vars, exec_vars, call_vars, detect_vars, import_vars>>

\* PUT /<table>/:id/unarchive
unarchive ==
    /\ entity # ""
    /\ \E id \in DOMAIN table :
        IF table[id] = None
        THEN /\ last_call' = Call("unarchive", id, ArchivedAt(id), 404, {})
             /\ UNCHANGED table
        ELSE /\ table' = [table EXCEPT ![id] =
                            Some([Unwrap(@) EXCEPT !.archived_at = None])]
             /\ last_call' = Call("unarchive", id, ArchivedAt(id), 200, {})
    /\ UNCHANGED <<entity, bridge_vars, exec_vars, call_vars, detect_vars, import_vars>>

\* DELETE /<table>/:id
delete ==
    /\ entity # ""
    /\ \E id \in DOMAIN table :
        IF table[id] = None
        THEN /\ last_call' = Call("delete", id, <<>>, 404, {})
             /\ UNCHANGED table
        ELSE /\ table' = [table EXCEPT ![id] = None]
             /\ last_call' = Call("delete", id, <<>>, 204, {})
    /\ UNCHANGED <<entity, bridge_vars, exec_vars, call_vars, detect_vars, import_vars>>

CrudNext ==
    \/ create
    \/ list
    \/ update
    \/ archive
    \/ unarchive
    \/ delete

CrudSpec == CrudInit /\ [][CrudNext]_vars

(***************************************************************************)
(* The proxy detector called on its own: detect_proxy (proxy.rs) on target *)
(* URLs and process environments written from their parts.                 *)
(***************************************************************************)
\* The largest number of entries of NO_PROXY
MaxEntries == 2

\* The text of a target URL: scheme://[userinfo@]host[:port][path]
TargetText(t) ==
    t.scheme
        \o (IF t.userinfo = <<>> THEN <<>> ELSE t.userinfo \o <<"@">>)
        \o t.host
        \o (IF t.port = <<>> THEN <<>> ELSE <<":">> \o t.port)
        \o t.path

Host_a == <<"a">>

Host_b_io == <<"b", ".", "i", "o">>

Host_x_b_io == <<"x", ".", "b", ".", "i", "o">>

Host_xb_io == <<"x", "b", ".", "i", "o">>

Host_localhost == <<"l", "o", "c", "a", "l", "h", "o", "s", "t">>

Port9000 == <<"9", "0", "0", "0">>

\* The targets detect_proxy is called with
Targets ==
    { [NoTarget EXCEPT !.scheme = S_ws, !.host = Host_a],
      [NoTarget EXCEPT !.scheme = S_wss, !.host = Host_b_io, !.path = <<"/", "p">>],
      [NoTarget EXCEPT !.scheme = S_ws, !.host = Host_x_b_io, !.port = Port9000,
                       !.path = <<"/", "p">>],
      [NoTarget EXCEPT !.scheme = S_wss, !.host = Host_xb_io, !.port = <<"4", "4", "3">>],
      [NoTarget EXCEPT !.scheme = S_ws, !.host = Host_localhost, !.port = Port9000],
      [NoTarget EXCEPT !.scheme = S_ws, !.userinfo = <<"u", ":", "w">>, !.host = Host_a,
                       !.port = Port9000, !.path = <<"/">>] }

\* The entries NO_PROXY is written from, as they stand between the commas
Entries ==
    { <<"*">>, Host_a, <<".">> \o Host_b_io, Host_b_io, <<" ">> \o Host_localhost \o <<" ">> }

RECURSIVE Join(_)
Join(entries) ==
    IF Len(entries) = 0 THEN <<>>
    ELSE IF Len(entries) = 1 THEN entries[1]
    ELSE entries[1] \o <<",">> \o Join(Tail(entries))

\* The values a proxy variable is given, by name: the text, and the ProxyConfig
\* the text stands for where it stands for one
ProxyText(v) ==
    CASE v = "http" -> S_http \o <<"p", ":", "8", "0", "8", "0">>
      [] v = "https" -> S_https \o <<"u", ":", "w", "@", "s", "/">>
      [] v = "socks5" -> S_socks5h \o <<"k">>
      [] v = "bare" -> <<"q", ":", "3", "1", "2", "8">>
      [] v = "empty" -> <<>>
      [] v = "badport" -> S_http \o <<"p", ":", "x">>
      [] v = "bigport" -> <<"q", ":", "7", "0", "0", "0", "0">>

ProxyOf(v) ==
    CASE v = "http" ->
            Some([proxy_type |-> "Http", host |-> <<"p">>, port |-> 8080,
                  username |-> None, password |-> None])
      [] v = "https" ->
            Some([proxy_type |-> "Https", host |-> <<"s">>, port |-> 443,
                  username |-> Some(<<"u">>), password |-> Some(<<"w">>)])
      [] v = "socks5" ->
            Some([proxy_type |-> "Socks5", host |-> <<"k">>, port |-> 1080,
                  username |-> None, password |-> None])
      [] v = "bare" ->
            Some([proxy_type |-> "Http", host |-> <<"q">>, port |-> 3128,
                  username |-> None, password |-> None])
      [] OTHER -> None

RECURSIVE SeqsUpTo(_, _)
SeqsUpTo(S, n) ==
    IF n = 0 THEN {<<>>}
    ELSE LET shorter == SeqsUpTo(S, n - 1)
         IN  shorter \cup {Append(q, e) : q \in shorter, e \in S}

\* The process environments detect_proxy runs in
Environs ==
    [no_proxy : SeqsUpTo(Entries, MaxEntries), lower : BOOLEAN,
     all : {"unset", "socks5", "empty"},
     https : {"unset", "https", "badport"},
     http : {"unset", "http"},
     socks : {"unset", "bare", "bigport"}]

\* The process environment: every variable under its upper-case or its
\* lower-case name, NO_PROXY unset when it has no entry
EnvOf(e) ==
    LET Val(v) == IF v = "unset" THEN None ELSE Some(ProxyText(v))
        Name(upper, lower) == IF e.lower THEN lower ELSE upper
    IN  [n \in EnvNames |->
            CASE n = Name("ALL_PROXY", "all_proxy") -> Val(e.all)
              [] n = Name("HTTPS_PROXY", "https_proxy") -> Val(e.https)
              [] n = Name("HTTP_PROXY", "http_proxy") -> Val(e.http)
              [] n = Name("SOCKS_PROXY", "socks_proxy") -> Val(e.socks)
              [] n = Name("NO_PROXY", "no_proxy") ->
                    IF e.no_proxy = <<>> THEN None ELSE Some(Join(e.no_proxy))
              [] OTHER -> None]

DetectInit ==
    /\ target \in Targets
    /\ environ \in Environs
    /\ detected = <<"pending">>
    /\ BridgeInit
    /\ ExecOff
    /\ CallOff
    /\ CrudOff
    /\ ImportOff

\* detect_proxy(target_url) is called and returns
DetectCall ==
    /\ detected = <<"pending">>
    /\ detected' = <<"returned", detect_proxy(TargetText(target), EnvOf(environ))>>
    /\ UNCHANGED <<target, environ, import_vars, crud_vars, bridge_vars, exec_vars, call_vars>>

ProxySpec == DetectInit /\ [][DetectCall]_vars

(***************************************************************************)
(* The import handler: handle_import (import_api.rs) with parse_import_file *)
(* and save_import (importers.rs). A file is its name, its content as the  *)
(* sequence of the fragments it is written from, and the document the      *)
(* content decodes to; a request is its method.                            *)
(***************************************************************************)
\* The largest number of files of one upload
MaxFiles == 2

\* The fragments parse_import_file looks for in the content
M_thunder == "\"clientName\": \"Thunder Client\""

M_postman_id == "\"_postman_id\""

M_schema == "\"schema\": \"https://schema.getpostman.com/json/collection/v2"

M_requests == "\"requests\": ["

M_folders == "\"folders\": ["

M_insomnia == "collection.insomnia.rest"

M_group == "_type\": \"request_group\""

\* str::contains for a fragment
ContainsFragment(content, m) == \E i \in 1..Len(content) : content[i] = m

E_Thunder == "Failed to parse Thunder Client export"

E_PostmanV2 == "Failed to parse Postman v2 export"

E_PostmanV1 == "Failed to parse Postman v1 export"

E_Insomnia == "Detected Insomnia format but failed to parse as JSON export, YAML collection, or YAML export"

E_Unknown == "Unknown file format. Please use Postman (v1/v2), Insomnia, or Thunder Client exports."

N_import == <<"i", "m", "p", "o", "r", "t">>

N_json == <<"c", ".", "j", "s", "o", "n">>

N_yaml == <<"c", ".", "y", "a", "m", "l">>

N_yml == <<"c", ".", "y", "m", "l">>

T_FETCH == <<"F", "E", "T", "C", "H">>

\* A document: the format its structure has, the collection name, the folders
\* with their requests, and the requests outside every folder
Doc(format, name, groups, root) ==
    [format |-> format, name |-> name, groups |-> groups, root |-> root]

Group(name, requests) == [name |-> name, requests |-> requests]

File(file_name, content, doc) ==
    [file_name |-> file_name, content |-> content, doc |-> doc]

\* The files of an upload
Files ==
    { File(N_json, <<"{", M_thunder, "}">>,
           Doc("thunder", <<>>, <<Group(<<"P">>, <<T_GET>>)>>, <<T_POST>>)),
      File(N_json, <<"{", M_postman_id, M_thunder, "}">>,
           Doc("thunder", <<"C">>, <<Group(<<"P">>, <<T_GET>>), Group(<<"Q">>, <<T_POST>>)>>,
               <<>>)),
      File(N_json, <<"{", M_thunder, "}">>,
           Doc("thunder", <<"C">>, <<Group(<<"P">>, <<>>)>>, <<>>)),
      File(N_json, <<"{", M_thunder, M_postman_id, "}">>,
           Doc("postman_v2", <<"C">>, <<>>, <<T_GET>>)),
      File(N_json, <<"{", M_postman_id, "}">>,
           Doc("postman_v2", <<"C">>, <<Group(<<"P">>, <<T_GET>>)>>, <<T_FETCH>>)),
      File(N_json, <<"{", M_requests, M_schema, M_folders, "}">>,
           Doc("postman_v2", <<" ">>, <<>>, <<>>)),
      File(N_json, <<"{", M_requests, M_folders, M_insomnia, "}">>,
           Doc("postman_v1", <<"C">>, <<>>, <<T_GET, T_POST>>)),
      File(N_json, <<"{", M_requests, "}">>,
           Doc("postman_v1", <<"C">>, <<>>, <<T_GET>>)),
      File(N_json, <<"{", M_group, "}">>,
           Doc("insomnia", <<>>, <<Group(<<"P">>, <<T_GET>>), Group(<<"Q">>, <<>>)>>,
               <<T_POST>>)),
      File(N_yaml, <<"collection:">>,
           Doc("insomnia_v5", <<>>, <<Group(<<"P">>, <<T_GET>>)>>, <<T_POST>>)),
      File(N_yml, <<"resources:">>,
           Doc("insomnia_yaml", <<>>, <<>>, <<>>)),
      File(N_yml, <<"x">>, Doc("other", <<>>, <<>>, <<>>)),
      File(N_json, <<"{", "}">>, Doc("postman_v2", <<"C">>, <<>>, <<T_GET>>)) }

ParsedFolder(name, requests) == [name |-> name, requests |-> requests]

\* Vec::extend over the requests of the folders, in order
RECURSIVE Flatten(_)
Flatten(groups) ==
    IF groups = <<>> THEN <<>> ELSE Head(groups).requests \o Flatten(Tail(groups))

\* the folders that hold a request, in the order of the document
RECURSIVE NonEmpty(_)
NonEmpty(groups) ==
    IF groups = <<>> THEN <<>>
    ELSE (IF Head(groups).requests # <<>> THEN <<Head(groups)>> ELSE <<>>)
            \o NonEmpty(Tail(groups))

\* HashMap::into_values of the folders that hold a request: every order
Values(groups) ==
    Orders({NonEmpty(groups)[i] : i \in 1..Len(NonEmpty(groups))})

\* parse_postman_v2: one folder named info.name with the flattened items
parse_postman_v2(doc) ==
    IF doc.format # "postman_v2" THEN {Err(E_PostmanV2)}
    ELSE {Ok(<<ParsedFolder(doc.name, Flatten(doc.groups) \o doc.root)>>)}

\* parse_postman_v1: one folder named after the collection
parse_postman_v1(doc) ==
    IF doc.format # "postman_v1" THEN {Err(E_PostmanV1)}
    ELSE {Ok(<<ParsedFolder(doc.name, Flatten(doc.groups) \o doc.root)>>)}

\* parse_thunder_client: the folders that hold requests, then the root requests
\* in a folder named collectionName or "import"
parse_thunder_client(doc) ==
    IF doc.format # "thunder" THEN {Err(E_Thunder)}
    ELSE LET trailing ==
                IF doc.root = <<>> THEN <<>>
                ELSE <<ParsedFolder(IF doc.name = <<>> THEN N_import ELSE doc.name,
                                    doc.root)>>
         IN  {Ok(q \o trailing) : q \in Values(doc.groups)}

\* parse_insomnia: the request groups that hold requests, then the orphans in a
\* folder named "import"
parse_insomnia(doc) ==
    LET trailing ==
            IF doc.root = <<>> THEN <<>> ELSE <<ParsedFolder(N_import, doc.root)>>
    IN  {Ok(q \o trailing) : q \in Values(doc.groups)}

\* parse_insomnia_v5: the items with children that hold requests
parse_insomnia_v5(doc) == {Ok(NonEmpty(doc.groups))}

\* A detection that looks for the Postman v2 fragments ahead of Thunder Client's.
parse_import_file_PostmanFirst(file) ==
    LET has(m) == ContainsFragment(file.content, m)
        By(parser, results) ==
            {[file |-> file, parser |-> parser, result |-> r] : r \in results}
    IN  IF has(M_postman_id) \/ has(M_schema)
        THEN By("postman_v2", parse_postman_v2(file.doc))
        ELSE IF has(M_thunder)
        THEN By("thunder", parse_thunder_client(file.doc))
        ELSE IF has(M_requests) /\ has(M_folders)
        THEN By("postman_v1", parse_postman_v1(file.doc))
        ELSE IF \/ has(M_insomnia) \/ has(M_group)
                \/ EndsWith(file.file_name, <<".", "y", "a", "m", "l">>)
                \/ EndsWith(file.file_name, <<".", "y", "m", "l">>)
        THEN By("insomnia",
                IF file.doc.format = "insomnia" THEN parse_insomnia(file.doc)
                ELSE IF file.doc.format = "insomnia_v5" THEN parse_insomnia_v5(file.doc)
                ELSE IF file.doc.format = "insomnia_yaml" THEN parse_insomnia(file.doc)
                ELSE {Err(E_Insomnia)})
        ELSE By("none", {Err(E_Unknown)})

\* parse_import_file: the parser the content and the file name select, and the
\* values it can return
parse_import_file(file) ==
    LET has(m) == ContainsFragment(file.content, m)
        By(parser, results) ==
            {[file |-> file, parser |-> parser, result |-> r] : r \in results}
    IN  IF has(M_thunder)
        THEN By("thunder", parse_thunder_client(file.doc))
        ELSE IF has(M_postman_id) \/ has(M_schema)
        THEN By("postman_v2", parse_postman_v2(file.doc))
        ELSE IF has(M_requests) /\ has(M_folders)
        THEN By("postman_v1", parse_postman_v1(file.doc))
        ELSE IF \/ has(M_insomnia) \/ has(M_group)
                \/ EndsWith(file.file_name, <<".", "y", "a", "m", "l">>)
                \/ EndsWith(file.file_name, <<".", "y", "m", "l">>)
        THEN By("insomnia",
                IF file.doc.format = "insomnia" THEN parse_insomnia(file.doc)
                ELSE IF file.doc.format = "insomnia_v5" THEN parse_insomnia_v5(file.doc)
                ELSE IF file.doc.format = "insomnia_yaml" THEN parse_insomnia(file.doc)
                ELSE {Err(E_Insomnia)})
        ELSE By("none", {Err(E_Unknown)})

\* the String save_import returns
Message(text, n) == [text |-> text, n |-> n]

\* create_request: INSERT INTO requests ... 'api' ... RETURNING id
create_request(rows, method, folder_id) ==
    Append(rows, [method |-> method, request_type |-> "api", folder_id |-> folder_id])

\* The inserts of save_import, folder by folder; the database fails at insert
\* number fails_at (0: never), and an insert that fails ends the save.
RECURSIVE SaveLoop(_, _, _, _, _, _)
SaveLoop(folders, fails_at, done, total, ftable, rtable) ==
    IF folders = <<>>
    THEN [result |-> Ok(Message("Successfully imported {} requests", total)),
          folders_table |-> ftable, requests_table |-> rtable]
    ELSE LET folder == Head(folders)
             folder_name == IF Trim(folder.name) = <<>> THEN N_import ELSE folder.name
             folder_id == Len(ftable) + 1
             n == Len(folder.requests)
             \* the requests of this folder inserted before the failure
             k == IF fails_at > done + 1 /\ fails_at <= done + 1 + n
                  THEN fails_at - done - 2 ELSE n
             RECURSIVE Insert(_, _)
             Insert(rows, i) ==
                 IF i > k THEN rows
                 ELSE Insert(create_request(rows, folder.requests[i], folder_id), i + 1)
         IN  IF fails_at = done + 1
             THEN [result |-> Err("Failed to create folder"),
                   folders_table |-> ftable, requests_table |-> rtable]
             ELSE IF k < n
             THEN [result |-> Err("Failed to create request"),
                   folders_table |-> Append(ftable, folder_name),
                   requests_table |-> Insert(rtable, 1)]
             ELSE SaveLoop(Tail(folders), fails_at, done + 1 + n, total + n,
                           Append(ftable, folder_name), Insert(rtable, 1))

\* A save that reports the number of folders it created.
save_import_CountsFolders(folders, fails_at, ftable, rtable) ==
    LET saved == SaveLoop(folders, fails_at, 0, 0, ftable, rtable)
    IN  IF folders = <<>>
        THEN [result |-> Ok(Message("No collections found to import", 0)),
              folders_table |-> ftable, requests_table |-> rtable]
        ELSE IF IsOk(saved.result)
        THEN [saved EXCEPT !.result =
                Ok(Message("Successfully imported {} requests", Len(folders)))]
        ELSE saved

\* save_import
save_import(folders, fails_at, ftable, rtable) ==
    IF folders = <<>>
    THEN [result |-> Ok(Message("No collections found to import", 0)),
          folders_table |-> ftable, requests_table |-> rtable]
    ELSE SaveLoop(folders, fails_at, 0, 0, ftable, rtable)

\* the insert of a save at which the database fails (0: none does)
FailPoints == 0..3

\* Summaries of the folders that hold a request only.
Summaries_NonEmpty(folders) ==
    [i \in 1..Len(NonEmpty(folders)) |->
        [name |-> NonEmpty(folders)[i].name,
         request_count |-> Len(NonEmpty(folders)[i].requests)]]

\* CollectionSummary of every parsed folder
Summaries(folders) ==
    [i \in 1..Len(folders) |->
        [name |-> folders[i].name, request_count |-> Len(folders[i].requests)]]

\* one line pushed to message
Line(head, file_name, msg) == [head |-> head, file_name |-> file_name, msg |-> msg]

ImportInit ==
    /\ multipart \in SeqsUpTo(Files, MaxFiles)
    /\ is_preview \in BOOLEAN
    /\ preview_collections = <<>>
    /\ status_lines = <<>>
    /\ folders_table = <<>>
    /\ requests_table = <<>>
    /\ last_parse = NoParse
    /\ response = None
    /\ BridgeInit
    /\ ExecOff
    /\ CallOff
    /\ CrudOff
    /\ DetectOff

\* handle_import, one turn of the loop over the multipart fields
ImportFile ==
    /\ response = None
    /\ multipart # <<>>
    /\ \E p \in parse_import_file(Head(multipart)), fails_at \in FailPoints :
        /\ last_parse' = p
        /\ multipart' = Tail(multipart)
        /\ IF IsOk(p.result) /\ is_preview
           THEN /\ preview_collections' = preview_collections \o Summaries(p.result[2])
                /\ UNCHANGED <<status_lines, folders_table, requests_table>>
           ELSE IF IsOk(p.result)
           THEN LET saved == save_import(p.result[2], fails_at, folders_table,
                                         requests_table)
                IN  /\ folders_table' = saved.folders_table
                    /\ requests_table' = saved.requests_table
                    /\ status_lines' =
                         Append(status_lines,
                                IF IsOk(saved.result)
                                THEN Line("Success", <<>>, saved.result[2])
                                ELSE Line("Error saving", Head(multipart).file_name,
                                          Message(saved.result[2], 0)))
                    /\ UNCHANGED preview_collections
           ELSE /\ status_lines' =
                     IF is_preview THEN status_lines
                     ELSE Append(status_lines,
                                 Line("Error parsing", Head(multipart).file_name,
                                      Message(p.result[2], 0)))
                /\ UNCHANGED <<preview_collections, folders_table, requests_table>>
    /\ UNCHANGED <<is_preview, response, detect_vars, crud_vars, bridge_vars, exec_vars, call_vars>>

\* handle_import, after the last field: the JSON body
Respond ==
    /\ response = None
    /\ multipart = <<>>
    /\ response' = Some([preview |-> is_preview,
                         collections |-> IF is_preview THEN preview_collections ELSE <<>>,
                         message |-> IF is_preview THEN <<>> ELSE status_lines])
    /\ UNCHANGED <<multipart, is_preview, preview_collections, status_lines,
                   folders_table, requests_table, last_parse,
                   detect_vars, crud_vars, bridge_vars, exec_vars, call_vars>>

ImportNext ==
    \/ ImportFile
    \/ Respond

ImportSpec == ImportInit /\ [][ImportNext]_vars

(***************************************************************************)
(* Properties of the WebSocket bridge.                                     *)
(***************************************************************************)
\* This step handed event e to the outgoing channel (dropped without a receiver).
Emitted(e) ==
    IF fwd = "run" THEN out_chan' = Append(out_chan, e) ELSE out_chan' = out_chan

\* This step appended an event to the outgoing channel; NewEv is that event.
EmitStep == Len(out_chan') = Len(out_chan) + 1

NewEv == out_chan'[Len(out_chan')]

\* e was produced by the read task of a remote session
FromRemote(e) ==
    \/ e.type = "message" /\ e.direction = "received"
    \/ e.type = "disconnected" /\ e.arg = R_Remote
    \/ e.type = "error" /\ e.arg = E_ConnectionError

StateUnchanged ==
    /\ remote_write_tx' = remote_write_tx
    /\ connected_url' = connected_url

\* C1: once a connect received while Connected to remote A has started its dial,
\* no event produced from A's connection (a relayed frame, disconnected, error)
\* is put into the outgoing channel.
C1_OldRemoteSilentAfterRedial ==
    [][EmitStep /\ FromRemote(NewEv) => ~conn[NewEv.conn].superseded]_vars

\* C2: a connect with a malformed URL emits one error event and leaves
\* remote_write_tx and connected_url as they were.
C2_MalformedConnectKeepsState ==
    [][/\ (pc = "idle" /\ pc' = "c_badurl") => StateUnchanged
       /\ (pc = "c_badurl" /\ pc' = "idle") =>
            (StateUnchanged /\ Emitted(Ev("error", E_InvalidUrl, "", 0)))]_vars

\* C3: with an echoing remote the k-th message{direction:received} of a remote
\* session never enters the outgoing channel before the k-th
\* message{direction:sent} for it.
C3_SentBeforeEcho == \A c \in Conns : conn[c].nrecv <= conn[c].nsent

\* C4: once handle_socket has returned and the bridge's tasks have nothing left
\* to do, no remote session has a live task or an open connection, and the
\* state is cleared, also when the remote stays silent.
C4_InboundCloseStopsRemote ==
    (pc = "done" /\ ~ENABLED BridgeStep) =>
        /\ remote_write_tx = 0
        /\ connected_url = None
        /\ \A c \in Conns :
            /\ conn[c].wtask # "run"
            /\ conn[c].rtask = "done"
            /\ ~ConnOpen(c)

\* C5: a connect with a well-formed URL ends in exactly one of two ways: the dial
\* succeeds, the state is set to the new remote session and its URL and one
\* connected{url} is emitted; or the dial fails, the state stays cleared and one
\* error is emitted. connected is emitted nowhere else, and no control message
\* is received while the dial is in progress.
C5_ConnectOutcome ==
    [][/\ pc = "c_dial" =>
            /\ ncmds' = ncmds /\ cur' = cur
            /\ pc' \in {"c_dial", "c_store", "c_fail"}
       /\ (pc = "c_dial" /\ pc' = "c_store") =>
            /\ Len(conn') = Len(conn) + 1
            /\ conn'[Len(conn')].url = cur.arg
            /\ ~EmitStep
       /\ (pc = "c_store" /\ pc' # pc) =>
            /\ pc' = "c_notify"
            /\ remote_write_tx' = Len(conn)
            /\ connected_url' = Some(conn[Len(conn)].url)
            /\ conn[Len(conn)].url = cur.arg
       /\ (pc = "c_notify" /\ pc' # pc) =>
            /\ pc' = "c_spawn"
            /\ Emitted(Ev("connected", cur.arg, "", Len(conn)))
       /\ (pc = "c_fail" /\ pc' # pc) =>
            /\ pc' = "idle"
            /\ Emitted(Ev("error", E_ConnectFailed, "", 0))
            /\ remote_write_tx' = 0 /\ connected_url' = None
            /\ conn' = conn
       /\ (EmitStep /\ NewEv.type = "connected") =>
            /\ pc = "c_notify"
            /\ NewEv.arg = cur.arg
            /\ NewEv.arg = conn[Len(conn)].url]_vars

C5_Witness ==
    /\ pc = "c_spawn"
    /\ remote_write_tx = Len(conn)
    /\ connected_url = Some(cur.arg)
    /\ out_chan # <<>>
    /\ out_chan[Len(out_chan)] = Ev("connected", cur.arg, "", Len(conn))

\* C6: a send on a Connected session appends exactly its text to the send channel
\* of the current remote and, the hand-over done, emits one
\* message{direction:sent}; on a session that is not Connected it forwards
\* nothing and emits the error "Not connected to a WebSocket server"; the
\* state does not change while the command is handled.
C6_SendEffect ==
    [][/\ (pc = "idle" /\ pc' \in {"s_fwd", "s_notconn"}) =>
            /\ StateUnchanged
            /\ conn' = conn /\ out_chan' = out_chan
            /\ pc' = "s_fwd" <=> remote_write_tx # 0
       /\ (pc = "s_fwd" /\ pc' # pc) =>
            /\ remote_write_tx \in Conns
            /\ IF RxAlive(remote_write_tx)
               THEN /\ pc' = "s_sent"
                    /\ conn'[remote_write_tx].chan =
                          Append(conn[remote_write_tx].chan, cur.arg)
                    /\ \A d \in Conns \ {remote_write_tx} : conn'[d] = conn[d]
               ELSE /\ pc' = "s_failed"
                    /\ conn' = conn
       /\ (pc = "s_sent" /\ pc' # pc) =>
            /\ Emitted(Ev("message", cur.arg, "sent", remote_write_tx))
            /\ \A c \in Conns : conn'[c].chan = conn[c].chan
       /\ (pc = "s_notconn" /\ pc' # pc) =>
            /\ Emitted(Ev("error", E_NotConnected, "", 0))
            /\ conn' = conn
       /\ pc = "s_notconn" =>
            \A c \in Conns : Len(conn'[c].chan) <= Len(conn[c].chan)
       /\ pc \in {"s_fwd", "s_sent", "s_failed", "s_notconn"} => StateUnchanged]_vars

C6_Witness ==
    /\ pc = "idle"
    /\ remote_write_tx # 0
    /\ conn[remote_write_tx].chan = <<"hi">>
    /\ out_chan # <<>>
    /\ out_chan[Len(out_chan)] = Ev("message", "hi", "sent", remote_write_tx)

\* C7: on a close frame the read task emits disconnected{"Remote closed
\* connection"}, on a read error it emits an error; in both cases it then
\* clears the state (Idle). No step of a read task touches the inbound socket,
\* the forwarder or the handler's position, so the session goes on.
C7_RemoteCloseReturnsToIdle ==
    [][\A c \in Conns :
          /\ (conn[c].rtask = "run" /\ conn'[c].rtask = "closing") =>
                /\ Head(conn[c].inflight).kind = "close"
                /\ Emitted(Ev("disconnected", R_Remote, "", c))
          /\ (conn[c].rtask = "run" /\ conn'[c].rtask = "erroring") =>
                /\ Head(conn[c].inflight).kind = "error"
                /\ Emitted(Ev("error", E_ConnectionError, "", c))
          /\ (conn[c].rtask = "run" /\ conn[c].inflight # <<>> /\ conn'[c].inflight = Tail(conn[c].inflight)
                /\ Head(conn[c].inflight).kind # "text") => conn'[c].rtask \in {"closing", "erroring"}
          /\ (conn[c].rtask \in {"closing", "erroring"} /\ conn'[c].rtask # conn[c].rtask) =>
                /\ conn'[c].rtask = "done"
                /\ remote_write_tx' = 0
                /\ connected_url' = None
          /\ (conn[c].rtask # "unspawned" /\ conn'[c].rtask # conn[c].rtask) =>
                /\ inbound' = inbound
                /\ pc' = pc
                /\ fwd' = fwd]_vars

C7_Witness ==
    \E c \in Conns :
        /\ conn[c].rtask = "done"
        /\ conn[c].rstate = "closed"
        /\ inbound = "open"
        /\ remote_write_tx \in Conns \ {c}
        /\ conn[remote_write_tx].rtask = "run"

C9_DialsUseProxyDialer ==
    \A c \in Conns : conn[c].egress = connect_with_proxy(UrlText(conn[c].url), penv)

\* C26: while the session is Connected to a remote, the Close or Err arm of the
\* read task of another, earlier remote does not clear the session state.
C26_OldRemoteKeepsState ==
    [][\A c \in Conns :
          (/\ conn[c].rtask \in {"closing", "erroring"}
           /\ conn'[c].rtask = "done"
           /\ remote_write_tx \in Conns \ {c}) => StateUnchanged]_vars

\* C27: after a disconnect has been processed on a session Connected to a
\* remote (state cleared, disconnected{"Disconnected by user"} emitted), no message{direction:received}, disconnected or error event that
\* comes from that remote is put into the outgoing channel.
C27_RelayStopsOnDisconnect ==
    [][(EmitStep /\ FromRemote(NewEv) /\ pc # "d_emit") =>
            ~conn[NewEv.conn].dropped]_vars

\* C28: once the read task of the current remote has put disconnected{"Remote
\* closed connection"} or its error event into the outgoing channel, a send
\* command received afterwards finds the session Idle: it is answered with
\* "Not connected to a WebSocket server" and is not forwarded to that remote.
C28_IdleOnceCloseEmitted ==
    [][(/\ pc = "idle"
        /\ cur'.type = "send"
        /\ ncmds' = ncmds + 1
        /\ remote_write_tx \in Conns
        /\ conn[remote_write_tx].rtask \in {"closing", "erroring"}) =>
            pc' = "s_notconn"]_vars

\* C29: the state is set to the new remote before connected{url} is put into
\* the outgoing channel, connected is put there before the read task of that
\* remote exists and so before any event that comes from it, and
\* remote_write_tx is set exactly when connected_url is set.
C29_ConnectedComesFirst ==
    [][/\ (remote_write_tx' = 0) = (connected_url' = None)
       /\ remote_write_tx' # 0 =>
            /\ remote_write_tx' \in DOMAIN conn'
            /\ connected_url' = Some(conn'[remote_write_tx'].url)
       /\ (EmitStep /\ NewEv.type = "connected") =>
            /\ pc = "c_notify"
            /\ NewEv.conn = Len(conn)
            /\ conn[Len(conn)].rtask = "unspawned"
       /\ pc' = "c_notify" =>
            (pc = "c_notify" \/ (pc = "c_store" /\ remote_write_tx' = Len(conn)))
       /\ (EmitStep /\ FromRemote(NewEv)) =>
            /\ NewEv.conn \in Conns
            /\ conn[NewEv.conn].rtask = "run"
       /\ \A c \in Conns :
            (conn[c].rtask = "unspawned" /\ conn'[c].rtask # "unspawned") =>
                (pc = "c_spawn" /\ c = Len(conn))]_vars

\* connected{url} of a remote lies in the outgoing channel ahead of the
\* disconnected event that came from that remote
C29_Witness ==
    /\ Len(out_chan) = 2
    /\ out_chan[1].type = "connected"
    /\ out_chan[2] = Ev("disconnected", R_Remote, "", out_chan[1].conn)
    /\ out_chan[1].conn \in Conns

(***************************************************************************)
(* Properties of the proxy detector.                                       *)
(***************************************************************************)
\* A NO_PROXY entry matches a host: it is "*", it equals the host, it starts
\* with a dot and the host ends with it or equals it without the dot, or it has
\* no leading dot and the host ends with "." followed by it.
MatchesHost(entry, host) ==
    \/ entry = <<"*">>
    \/ entry = host
    \/ Head(entry) = "." /\ (EndsWith(host, entry) \/ host = Tail(entry))
    \/ Head(entry) # "." /\ EndsWith(host, <<".">> \o entry)

\* The host of the target matches one of the trimmed entries of NO_PROXY.
InNoProxy ==
    \E i \in 1..Len(environ.no_proxy) :
        MatchesHost(Trim(environ.no_proxy[i]), target.host)

\* The first of ALL_PROXY, HTTPS_PROXY (for a wss:// target), HTTP_PROXY and
\* SOCKS_PROXY whose value stands for a proxy
FirstProxy ==
    LET order == <<environ.all,
                   IF target.scheme = S_wss THEN environ.https ELSE "unset",
                   environ.http, environ.socks>>
        good == {i \in 1..4 : ProxyOf(order[i]) # None}
    IN  IF good = {} THEN None
        ELSE ProxyOf(order[CHOOSE i \in good : \A j \in good : i <= j])

\* C24: detect_proxy returns direct for every target whose host matches an
\* entry of NO_PROXY, whatever the proxy variables hold, and it bypasses the
\* proxy for no other host.
C24_NoProxyBypass ==
    detected[1] = "returned" =>
        /\ InNoProxy => detected[2] = None
        /\ (~InNoProxy /\ environ.http = "http") => detected[2] # None

\* C25: for a target that NO_PROXY does not match, detect_proxy returns the
\* first of ALL_PROXY, HTTPS_PROXY (wss:// targets only), HTTP_PROXY and
\* SOCKS_PROXY whose value parses as a proxy URL, skipping the variables that
\* are unset or do not parse, and direct when none parses.
C25_ProxyPrecedence ==
    (detected[1] = "returned" /\ ~InNoProxy) => detected[2] = FirstProxy

\* a wss:// target with an ALL_PROXY that does not parse got HTTPS_PROXY, ahead
\* of HTTP_PROXY
C25_Witness ==
    /\ detected[1] = "returned"
    /\ ~InNoProxy
    /\ target.scheme = S_wss
    /\ environ.all = "empty"
    /\ environ.https = "https"
    /\ environ.http = "http"
    /\ detected[2] = ProxyOf("https")

(***************************************************************************)
(* Properties of the import handler.                                       *)
(***************************************************************************)
\* This step read one file of the upload.
FileStep == Len(multipart') < Len(multipart)

\* This step read a file that parsed, saved it, and the save returned Ok.
SavedStep ==
    /\ FileStep
    /\ ~is_preview
    /\ IsOk(last_parse'.result)
    /\ Len(status_lines') = Len(status_lines) + 1
    /\ status_lines'[Len(status_lines')].head = "Success"

\* the request rows a save adds for the parsed folders: one per request, in the
\* folder created for its ParsedFolder, the first of them with id base + 1
RECURSIVE RowsOf(_, _)
RowsOf(folders, base) ==
    IF folders = <<>> THEN <<>>
    ELSE [j \in 1..Len(Head(folders).requests) |->
            [method |-> Head(folders).requests[j], request_type |-> "api",
             folder_id |-> base + 1]]
         \o RowsOf(Tail(folders), base + 1)

\* the folders and rows of the step are those of the parsed folders, and the
\* message counts the rows
SavedAll ==
    LET emitted == last_parse'.result[2]
        base == Len(folders_table)
        rows == RowsOf(emitted, base)
    IN  /\ Len(folders_table') = base + Len(emitted)
        /\ \A i \in 1..Len(emitted) :
              folders_table'[base + i] =
                  IF Trim(emitted[i].name) = <<>> THEN N_import ELSE emitted[i].name
        /\ requests_table' = requests_table \o rows
        /\ status_lines'[Len(status_lines')].msg =
              Message("Successfully imported {} requests", Len(rows))

C22_PreviewOnlyParses ==
    [][is_preview =>
        /\ folders_table' = folders_table
        /\ requests_table' = requests_table
        /\ status_lines' = status_lines
        /\ FileStep =>
            preview_collections' = preview_collections \o
                (IF IsOk(last_parse'.result)
                 THEN [i \in 1..Len(last_parse'.result[2]) |->
                        [name |-> last_parse'.result[2][i].name,
                         request_count |-> Len(last_parse'.result[2][i].requests)]]
                 ELSE <<>>)
        /\ ~FileStep => preview_collections' = preview_collections]_vars

\* a preview of a file with a folder without requests and a file that did not
\* parse has answered
C22_Witness ==
    /\ is_preview
    /\ response[1] = "Some"
    /\ response[2].collections = <<[name |-> <<" ">>, request_count |-> 0]>>
    /\ ~IsOk(last_parse.result)
    /\ folders_table = <<>>
    /\ requests_table = <<>>

\* C23: the parser of a file is decided by the first of the Thunder Client,
\* Postman v2, Postman v1 and Insomnia checks that matches, whatever later
\* fragments the content holds and whether or not that parser then fails; a file
\* with no fragment and a name that ends in neither .yaml nor .yml fails with
\* "Unknown file format".
C23_DetectionOrder ==
    [][FileStep =>
        LET file == Head(multipart)
            has(m) == \E i \in DOMAIN file.content : file.content[i] = m
            thunder == has(M_thunder)
            v2 == has(M_postman_id) \/ has(M_schema)
            v1 == has(M_requests) /\ has(M_folders)
            insomnia ==
                \/ has(M_insomnia) \/ has(M_group)
                \/ EndsWith(file.file_name, <<".", "y", "a", "m", "l">>)
                \/ EndsWith(file.file_name, <<".", "y", "m", "l">>)
            p == last_parse'
        IN  /\ thunder => p.parser = "thunder"
            /\ (~thunder /\ v2) => p.parser = "postman_v2"
            /\ (~thunder /\ ~v2 /\ v1) => p.parser = "postman_v1"
            /\ (~thunder /\ ~v2 /\ ~v1 /\ insomnia) => p.parser = "insomnia"
            /\ (~thunder /\ ~v2 /\ ~v1 /\ ~insomnia) =>
                    (p.parser = "none" /\ p.result = Err(E_Unknown))
            /\ (p.parser = "thunder" /\ file.doc.format # "thunder") =>
                    p.result = Err(E_Thunder)
            /\ IsOk(p.result) =>
                    \/ p.parser = file.doc.format
                    \/ p.parser = "insomnia" /\
                         file.doc.format \in {"insomnia_v5", "insomnia_yaml"}]_vars

\* a file with the Thunder Client fragment after "_postman_id" was parsed as
\* Thunder Client
C23_Witness ==
    /\ last_parse.parser = "thunder"
    /\ IsOk(last_parse.result)
    /\ \E i \in DOMAIN last_parse.file.content : last_parse.file.content[i] = M_postman_id

\* C30: every row of requests with request_type 'api' has a method of the
\* allow-list of the create handler, whatever its case.
C30_ImportedMethodsAllowed ==
    \A i \in DOMAIN requests_table :
        requests_table[i].request_type = "api" =>
            to_uppercase(requests_table[i].method) \in HttpMethods

(***************************************************************************)
(* Properties of the request executor.                                     *)
(***************************************************************************)
KeysOf(vs) == {vs[i].key : i \in DOMAIN vs}

\* t holds a placeholder {{x}} whose name x is not a key of vs
HoldsUnbound(t, vs) ==
    \E i \in 1..Len(t), j \in 1..Len(t) :
        /\ j >= i + 2
        /\ OccursAt(t, <<"{", "{">>, i)
        /\ OccursAt(t, <<"}", "}">>, j)
        /\ \A n \in (i + 2)..(j - 1) : t[n] \notin {"{", "}"}
        /\ SubSeq(t, i + 2, j - 1) \notin KeysOf(vs)

OptText(o) == IF o = None THEN {} ELSE {Unwrap(o)}

\* the texts of request r that substitution runs over
SubstitutedFields(r) ==
    {r.url} \cup OptText(r.body) \cup OptText(r.headers) \cup OptText(r.auth_token)
        \cup OptText(r.auth_username) \cup OptText(r.auth_password)

PairTexts(m) == {m[i].key : i \in DOMAIN m} \cup {m[i].value : i \in DOMAIN m}

\* the values of the outgoing request w
WireTexts(w) ==
    {w.url} \cup OptText(w.body) \cup OptText(w.authorization)
        \cup (IF w.basic_auth = None THEN {}
              ELSE {Unwrap(w.basic_auth).username, Unwrap(w.basic_auth).password})
        \cup (IF w.multipart = None THEN {} ELSE PairTexts(Unwrap(w.multipart)))
        \cup PairTexts(w.headers)

\* C10: when one of the six substituted fields holds a placeholder the
\* environment does not bind, the call ends with status 400 and nothing is
\* sent; and no value of a request that is sent, its body included, still
\* holds {{k}} for a key k of the environment.
C10_SubstitutedBeforeDispatch ==
    [][/\ (epc = "subst" /\ \E t \in SubstitutedFields(Unwrap(request)) :
                                HoldsUnbound(t, variables)) =>
            (epc' = "done" /\ outcome' = StatusOf(SubstitutionError) /\ wire' = None)
       /\ (wire = None /\ wire' # None) =>
            \A t \in WireTexts(Unwrap(wire')), key \in KeysOf(variables) :
                ~Contains(t, Placeholder(key))]_vars

\* the Content-Type of a typed body
TypedContentType(body_type) ==
    CASE body_type = "json" -> "application/json"
      [] body_type = "xml" -> "application/xml"
      [] body_type = "text" -> "text/plain"
      [] body_type = "form" -> "application/x-www-form-urlencoded"
      [] body_type = "multipart" -> "multipart/form-data"
      [] body_type = "binary" -> "application/octet-stream"
      [] OTHER -> ""

\* C13: a request that is sent carries, for a typed body_type with content, the
\* body built from body_content with the Content-Type of the kind; in every
\* other case a present legacy body is sent as it is with no Content-Type, also
\* when body_type is none and body_content is set.
C13_BodyByType ==
    wire # None =>
        LET r == Unwrap(request)
            w == Unwrap(wire)
        IN  IF TypedContentType(r.body_type) # "" /\ r.body_content # None
            THEN /\ w.content_type = TypedContentType(r.body_type)
                 /\ r.body_type \in {"json", "xml", "text", "binary"} =>
                        w.body = r.body_content
                 /\ r.body_type = "form" =>
                        w.body = Some(FormString(Unwrap(ParseJsonMap(Unwrap(r.body_content)))))
                 /\ r.body_type = "multipart" =>
                        w.multipart = ParseJsonMap(Unwrap(r.body_content))
            ELSE r.body # None => (w.body = r.body /\ w.content_type = "")

\* the pairs of m with the values substituted
SubstPairs(m, vs) == [i \in DOMAIN m |-> [m[i] EXCEPT !.value = SubstLoop(@, vs)]]

\* C14: in an execution with a request_id, url, method, body and headers of the
\* payload, when present, are the ones sent (after substitution): an empty
\* headers map sends no user headers, a non-empty one replaces the stored
\* headers; absent url and method keep the stored values; the stored row is
\* not modified.
C14_OverridesAreSent ==
    [][/\ requests_row' = requests_row
       /\ (wire = None /\ wire' # None /\ payload.request_id # None) =>
            LET w == Unwrap(wire')
            IN  /\ w.url = SubstLoop(IF payload.url # None THEN Unwrap(payload.url)
                                     ELSE requests_row.url, variables)
                /\ w.method = IF payload.method # None THEN Unwrap(payload.method)
                              ELSE requests_row.method
                /\ payload.body # None =>
                        w.body = Some(SubstLoop(Unwrap(payload.body), variables))
                /\ payload.headers # None =>
                        w.headers = SubstPairs(Unwrap(payload.headers), variables)
                /\ (payload.headers = None /\ requests_row.headers = None) =>
                        w.headers = <<>>]_vars

\* The statuses the causes of failure present before a failing step call for:
\* 404 for a request_id without a row, 400 for an unresolved variable or
\* unparsable JSON, 502 for an invalid proxy URL, an invalid method, a missing
\* url or method of a direct execution or a failed send, 500 for every other
\* failure of the persistence.
FailureStatuses ==
    CASE epc = "start" ->
            IF payload.request_id = None THEN {StatusOf(NetworkError)}
            ELSE IF db = "up" /\ Unwrap(payload.request_id) # requests_row.id
            THEN {StatusOf(RequestNotFound)}
            ELSE {StatusOf(DatabaseError)}
      [] epc = "env" ->
            IF /\ db = "up"
               /\ Unwrap(payload.environment_id) \in DOMAIN EnvTable
            THEN {StatusOf(SubstitutionError)}
            ELSE {StatusOf(DatabaseError)}
      [] epc = "subst" -> {StatusOf(SubstitutionError)}
      [] OTHER ->
            LET r == Unwrap(request)
                early == {StatusOf(NetworkError) :
                            x \in {y \in {1, 2} :
                                \/ y = 1 /\ ~IsOk(build_reqwest_client(
                                        IF db = "down" THEN None ELSE network_settings))
                                \/ y = 2 /\ ~MethodOk(r.method)}}
                         \cup {StatusOf(SubstitutionError) :
                            x \in {y \in {1, 2} :
                                \/ y = 1 /\ ~IsOk(BodyOf(r))
                                \/ y = 2 /\ ~IsOk(HeadersOf(r))}}
            IN  IF early = {} THEN {StatusOf(NetworkError)} ELSE early

\* C15: every failing execute returns the status of its error kind and no other:
\* 404 for a request_id that does not exist, 400 for an unresolved variable or
\* unparsable JSON, 502 for an invalid proxy URL, an invalid method or a failed
\* send, 500 for any other persistence failure.
C15_FailureStatus ==
    [][(epc \in {"start", "env", "subst", "dispatch"} /\ epc' = "done" /\ outcome' # 200) =>
            outcome' \in FailureStatuses]_vars

\* C16: an execution without request_id fails with NetworkError when url or
\* method is missing, before an environment is loaded or anything is dispatched;
\* otherwise it goes on with an ephemeral request named "Direct Request" with
\* auth kind none and body_type none built from the payload; the requests table
\* is not written.
C16_DirectExecution ==
    [][/\ requests_row' = requests_row
       /\ (epc = "start" /\ epc' # "start" /\ payload.request_id = None) =>
            IF payload.url = None \/ payload.method = None
            THEN /\ epc' = "done"
                 /\ outcome' = StatusOf(NetworkError)
                 /\ UNCHANGED <<request, variables, wire>>
            ELSE /\ epc' = "env"
                 /\ request' # None
                 /\ LET r == Unwrap(request')
                    IN  /\ r.name = "Direct Request"
                        /\ r.auth_type = "none"
                        /\ r.body_type = "none"
                        /\ r.body_content = None
                        /\ r.url = Unwrap(payload.url)
                        /\ r.method = Unwrap(payload.method)
                        /\ r.body = payload.body
                 /\ UNCHANGED <<variables, wire, outcome>>]_vars

\* a direct execution got its ephemeral request and stands before the
\* environment
C16_Witness ==
    /\ epc = "env"
    /\ payload.request_id = None
    /\ request # None
    /\ Unwrap(request).name = "Direct Request"

\* C17: the network settings are read at every execution: the client of a
\* request that is sent follows the row as it is when the execution dispatches,
\* whatever an earlier execution used; with auto_proxy the explicit proxies are
\* ignored, also malformed ones, and without the row the execution goes on as
\* with auto_proxy and no proxies.
C17_SettingsReadThrough ==
    [][(epc = "dispatch" /\ epc' = "done" /\ db = "up") =>
            LET auto == network_settings = None \/ Unwrap(network_settings).auto_proxy
                r == Unwrap(request)
            IN  /\ outcome' = 200 =>
                    /\ wire' # None
                    /\ Unwrap(wire').client =
                            IF auto THEN [auto_proxy |-> TRUE, http_proxy |-> None,
                                          https_proxy |-> None]
                            ELSE Unwrap(network_settings)
                /\ (/\ auto /\ MethodOk(r.method) /\ IsOk(BodyOf(r))
                    /\ IsOk(HeadersOf(r)) /\ UrlOk(r.url)) =>
                    /\ wire' # None
                    /\ Unwrap(wire').client.auto_proxy
                    /\ Unwrap(wire').url = r.url
                    /\ outcome' \in {200, StatusOf(NetworkError)}]_vars

\* an execution answered through the explicit proxies of an updated row
C17_Witness ==
    /\ epc = "done"
    /\ outcome = 200
    /\ wire # None
    /\ ~Unwrap(wire).client.auto_proxy
    /\ network_settings = Some(Unwrap(wire).client)

(***************************************************************************)
(* Properties of substitute_variables.                                     *)
(***************************************************************************)
\* t with every occurrence of a placeholder of m replaced by its value, read
\* left to right, the rest of t as it is
RECURSIVE ReplacedEach(_, _)
ReplacedEach(t, m) ==
    IF t = <<>> THEN <<>>
    ELSE IF \E i \in DOMAIN m : StartsWith(t, Placeholder(m[i].key))
    THEN LET i == CHOOSE i \in DOMAIN m : StartsWith(t, Placeholder(m[i].key))
         IN  m[i].value \o ReplacedEach(Drop(t, Len(Placeholder(m[i].key))), m)
    ELSE <<Head(t)>> \o ReplacedEach(Tail(t), m)

BothBraces(t) == Contains(t, <<"{", "{">>) /\ Contains(t, <<"}", "}">>)

\* C11: substitute_variables(T, V) is T with every {{k}}, k a key of V, replaced
\* by V[k] and the rest unchanged; it is the error SubstitutionError exactly when
\* that string holds both {{ and }}, and Ok of that string otherwise.
C11_SubstituteReplacesEach ==
    returned # None =>
        LET expected == ReplacedEach(tmpl, bindings)
        IN  Unwrap(returned) = IF BothBraces(expected) THEN Err(SubstitutionError)
                               ELSE Ok(expected)

\* C12: when V binds every placeholder that occurs in T, the call succeeds with
\* a string that does not hold both {{ and }}, whatever the values and the
\* order of V; when T holds a placeholder whose name is no key of V, it fails.
C12_SubstitutionTotal ==
    returned # None =>
        /\ ~HoldsUnbound(tmpl, bindings) =>
                (IsOk(Unwrap(returned)) /\ ~BothBraces(Unwrap(returned)[2]))
        /\ HoldsUnbound(tmpl, bindings) => ~IsOk(Unwrap(returned))

C19_ArchiveIdempotent ==
    [][last_call'.op \in {"archive", "unarchive"} =>
            LET id == last_call'.id
            IN  IF table[id] = None
                THEN last_call'.status = 404 /\ table' = table
                ELSE /\ last_call'.status = 200
                     /\ table'[id] # None
                     /\ (Unwrap(table'[id]).archived_at # None) =
                            (last_call'.op = "archive")
                     /\ \A f \in {"data", "updated_at"} :
                            Unwrap(table'[id])[f] = Unwrap(table[id])[f]
                     /\ \A j \in DOMAIN table \ {id} : table'[j] = table[j]]_vars

\* an archived row was archived once more
C19_Witness ==
    /\ last_call.op = "archive"
    /\ last_call.status = 200
    /\ last_call.arg = Some(TRUE)
    /\ Unwrap(table[last_call.id]).archived_at # None

\* C20: create and update of a request of kind api with a method outside GET,
\* POST, PUT, DELETE, PATCH, HEAD, OPTIONS, compared without regard to case, are
\* rejected with 400 and leave the table unchanged; a method of the list in any
\* case is let through, and so is any method of a request of kind ws.
C20_MethodAllowList ==
    [][(entity = "requests" /\ last_call'.op \in {"create", "update"}) =>
            LET p == last_call'.arg
                listed == \E m \in HttpMethods :
                            /\ Len(m) = Len(p.method)
                            /\ \A i \in DOMAIN m :
                                to_uppercase(<<p.method[i]>>) = <<m[i]>>
            IN  /\ (p.request_type = "api" /\ ~listed) =>
                        (last_call'.status = 400 /\ table' = table)
                /\ (p.name # "" /\ (p.request_type = "ws" \/ listed)) =>
                        last_call'.status # 400]_vars

\* a request of kind api with the method GOT was turned down
C20_Witness ==
    /\ entity = "requests"
    /\ last_call.op \in {"create", "update"}
    /\ last_call.arg.request_type = "api"
    /\ last_call.arg.method = <<"G", "O", "T">>
    /\ last_call.status = 400

====
